---- MODULE Spec2Model ----
(***************************************************************************)
(* A model of the query assistant (QueryAssistantService), of the metadata *)
(* cache (MetadataExplorerService) and of the connector they call          *)
(* (DynamicsService).                                                      *)
(*                                                                         *)
(* Text is modelled as a sequence of characters, each character a string   *)
(* of its own: "contas" is <<"c","o","n","t","a","s">>.  A character       *)
(* outside ASCII is written by name: "a_tilde", "e_acute", "c_cedil",      *)
(* "o_acute".  An optional value (a field that may be undefined) is a      *)
(* sequence of length 0 (None) or 1 (Some(v)).                             *)
(***************************************************************************)
EXTENDS Integers, Sequences, FiniteSets, TLC

VARIABLES
    sessions,   \* QueryAssistantService.sessions: the ids that are keys of the Map
    objs,       \* the QuerySession objects by id: those of the Map, and those a
                \* suspended handler still holds after the Map forgot them
    nextId,     \* the next session id startSession hands out
    pending,    \* connector calls of the assistant that are awaited
    now,        \* Date.now(), in milliseconds
    last,       \* what the most recent operation returned to its caller
    raced,      \* history: the ids for which processInput was called while
                \* another call of processInput for the same id was suspended
    cache,      \* MetadataExplorerService.cache: entities and lastUpdated
    metaCalls,  \* metadata explorer operations suspended on the connector
    metaLast,   \* what the most recent metadata operation returned
    metadataCache,  \* DynamicsService.metadataCache: documents by cache key
    schemaVersion,  \* how many times the schema the CRM holds has changed
    commandCalls,   \* connector calls that actions of ShortCommandService await
    applied,    \* the function of the program applied last, with its argument
    returned,   \* what that function returned
    transports, \* run-sse: the active SSE transports, in the order of their keys
    sessionIdMap,   \* run-sse: the spellings of session ids, each with its id
    posted      \* what the most recent POST /mcp/messages came to

vars == <<sessions, objs, nextId, pending, now, last, raced, cache, metaCalls, metaLast,
          metadataCache, schemaVersion, commandCalls, applied, returned,
          transports, sessionIdMap, posted>>
assistantVars == <<sessions, objs, nextId, pending, now, last, raced>>
metaVars == <<cache, metaCalls, metaLast, metadataCache, schemaVersion>>
callVars == <<commandCalls, applied, returned>>
sseVars == <<transports, sessionIdMap, posted>>

---------------------------------------------------------------------------
(* Optional values and text.                                               *)

None == << >>
Some(v) == <<v>>
IsSome(o) == Len(o) = 1
Get(o) == o[1]

UpperCase ==
    << "A", "B", "C", "D", "E", "F", "G", "H", "I", "J", "K", "L", "M",
       "N", "O", "P", "Q", "R", "S", "T", "U", "V", "W", "X", "Y", "Z" >>
LowerCaseLetters ==
    << "a", "b", "c", "d", "e", "f", "g", "h", "i", "j", "k", "l", "m",
       "n", "o", "p", "q", "r", "s", "t", "u", "v", "w", "x", "y", "z" >>
Digits == << "0", "1", "2", "3", "4", "5", "6", "7", "8", "9" >>

Range(f) == { f[i] : i \in DOMAIN f }

\* \w of a JavaScript regular expression: [A-Za-z0-9_]; accented letters are not in it
WordChars == Range(UpperCase) \cup Range(LowerCaseLetters) \cup Range(Digits) \cup {"_"}
\* \s of a JavaScript regular expression (the ones the inputs use)
SpaceChars == {" ", "\t", "\n"}
IsWordChar(c) == c \in WordChars
IsSpace(c) == c \in SpaceChars

LowerOf == [ c \in Range(UpperCase) |->
               LowerCaseLetters[CHOOSE i \in DOMAIN UpperCase : UpperCase[i] = c] ]
ToLowerChar(c) == IF c \in DOMAIN LowerOf THEN LowerOf[c] ELSE c

\* String.prototype.toLowerCase
toLowerCase(s) == [i \in 1..Len(s) |-> ToLowerChar(s[i])]

\* String.prototype.trim
RECURSIVE trimStart(_)
trimStart(s) == IF Len(s) > 0 /\ IsSpace(s[1]) THEN trimStart(Tail(s)) ELSE s
RECURSIVE trimEnd(_)
trimEnd(s) ==
    IF Len(s) > 0 /\ IsSpace(s[Len(s)]) THEN trimEnd(SubSeq(s, 1, Len(s) - 1)) ELSE s
trim(s) == trimEnd(trimStart(s))

\* String.prototype.substring(a, b): the arguments are clamped and swapped when a > b
substring(s, a, b) ==
    LET ca == IF a < 0 THEN 0 ELSE IF a > Len(s) THEN Len(s) ELSE a
        cb == IF b < 0 THEN 0 ELSE IF b > Len(s) THEN Len(s) ELSE b
        lo == IF ca <= cb THEN ca ELSE cb
        hi == IF ca <= cb THEN cb ELSE ca
    IN  SubSeq(s, lo + 1, hi)

startsWith(s, p) == Len(s) >= Len(p) /\ SubSeq(s, 1, Len(p)) = p
endsWith(s, p) == Len(s) >= Len(p) /\ SubSeq(s, Len(s) - Len(p) + 1, Len(s)) = p

DigitValue(c) == (CHOOSE i \in DOMAIN Digits : Digits[i] = c) - 1
IsDigit(c) == c \in Range(Digits)

RECURSIVE DecimalValue(_)
DecimalValue(ds) ==
    IF Len(ds) = 0 THEN 0
    ELSE DecimalValue(SubSeq(ds, 1, Len(ds) - 1)) * 10 + DigitValue(ds[Len(ds)])

\* parseInt(s): leading white space is skipped, then the longest run of digits is
\* read; NaN (None) when there is none.  The result is negated after a "-" sign.
parseInt(s) ==
    LET t == trim(s)
        neg == Len(t) > 0 /\ t[1] = "-"
        u == IF Len(t) > 0 /\ t[1] \in {"-", "+"} THEN Tail(t) ELSE t
        stops == { i \in 1..Len(u) : ~IsDigit(u[i]) }
        n == IF stops = {} THEN Len(u)
             ELSE (CHOOSE i \in stops : \A j \in stops : i <= j) - 1
    IN  IF n = 0 THEN None
        ELSE IF neg THEN Some(0 - DecimalValue(SubSeq(u, 1, n)))
        ELSE Some(DecimalValue(SubSeq(u, 1, n)))

\* Array.prototype.join over text
RECURSIVE join(_, _)
join(parts, sep) ==
    IF Len(parts) = 0 THEN << >>
    ELSE IF Len(parts) = 1 THEN parts[1]
    ELSE parts[1] \o sep \o join(Tail(parts), sep)

\* String.prototype.split(",")
RECURSIVE splitComma(_)
splitComma(s) ==
    LET commas == { i \in 1..Len(s) : s[i] = "," }
    IN  IF commas = {} THEN << s >>
        ELSE LET c == CHOOSE i \in commas : \A j \in commas : i <= j
             IN  << SubSeq(s, 1, c - 1) >> \o splitComma(SubSeq(s, c + 1, Len(s)))

---------------------------------------------------------------------------
(* QueryAssistantService: the word lists and the text parsers.             *)

entityMappings ==
    << << <<"c", "o", "n", "t", "a">>, <<"a", "c", "c", "o", "u", "n", "t", "s">> >>, << <<"c", "o", "n", "t", "a", "s">>, <<"a", "c", "c", "o", "u", "n", "t", "s">> >>,
       << <<"a", "c", "c", "o", "u", "n", "t">>, <<"a", "c", "c", "o", "u", "n", "t", "s">> >>, << <<"a", "c", "c", "o", "u", "n", "t", "s">>, <<"a", "c", "c", "o", "u", "n", "t", "s">> >>,
       << <<"c", "o", "n", "t", "a", "t", "o">>, <<"c", "o", "n", "t", "a", "c", "t", "s">> >>, << <<"c", "o", "n", "t", "a", "t", "o", "s">>, <<"c", "o", "n", "t", "a", "c", "t", "s">> >>,
       << <<"c", "o", "n", "t", "a", "c", "t">>, <<"c", "o", "n", "t", "a", "c", "t", "s">> >>, << <<"c", "o", "n", "t", "a", "c", "t", "s">>, <<"c", "o", "n", "t", "a", "c", "t", "s">> >>,
       << <<"c", "a", "s", "o">>, <<"i", "n", "c", "i", "d", "e", "n", "t", "s">> >>, << <<"c", "a", "s", "o", "s">>, <<"i", "n", "c", "i", "d", "e", "n", "t", "s">> >>,
       << <<"c", "a", "s", "e">>, <<"i", "n", "c", "i", "d", "e", "n", "t", "s">> >>, << <<"c", "a", "s", "e", "s">>, <<"i", "n", "c", "i", "d", "e", "n", "t", "s">> >>,
       << <<"i", "n", "c", "i", "d", "e", "n", "t", "s">>, <<"i", "n", "c", "i", "d", "e", "n", "t", "s">> >>,
       << <<"o", "p", "o", "r", "t", "u", "n", "i", "d", "a", "d", "e">>, <<"o", "p", "p", "o", "r", "t", "u", "n", "i", "t", "i", "e", "s">> >>, << <<"o", "p", "o", "r", "t", "u", "n", "i", "d", "a", "d", "e", "s">>, <<"o", "p", "p", "o", "r", "t", "u", "n", "i", "t", "i", "e", "s">> >>,
       << <<"o", "p", "p", "o", "r", "t", "u", "n", "i", "t", "y">>, <<"o", "p", "p", "o", "r", "t", "u", "n", "i", "t", "i", "e", "s">> >>, << <<"o", "p", "p", "o", "r", "t", "u", "n", "i", "t", "i", "e", "s">>, <<"o", "p", "p", "o", "r", "t", "u", "n", "i", "t", "i", "e", "s">> >>,
       << <<"l", "e", "a", "d">>, <<"l", "e", "a", "d", "s">> >>, << <<"l", "e", "a", "d", "s">>, <<"l", "e", "a", "d", "s">> >>,
       << <<"a", "t", "i", "v", "i", "d", "a", "d", "e">>, <<"a", "c", "t", "i", "v", "i", "t", "i", "e", "s">> >>, << <<"a", "t", "i", "v", "i", "d", "a", "d", "e", "s">>, <<"a", "c", "t", "i", "v", "i", "t", "i", "e", "s">> >>,
       << <<"a", "c", "t", "i", "v", "i", "t", "y">>, <<"a", "c", "t", "i", "v", "i", "t", "i", "e", "s">> >>, << <<"a", "c", "t", "i", "v", "i", "t", "i", "e", "s">>, <<"a", "c", "t", "i", "v", "i", "t", "i", "e", "s">> >> >>

\* this.entityMappings[normalizedInput] || normalizedInput
MapEntity(normalizedInput) ==
    IF \E i \in DOMAIN entityMappings : entityMappings[i][1] = normalizedInput
    THEN entityMappings[CHOOSE i \in DOMAIN entityMappings :
                            entityMappings[i][1] = normalizedInput][2]
    ELSE normalizedInput

ActionListWords ==
    { <<"1">>, <<"l", "i", "s", "t", "a", "r">>, <<"l", "i", "s", "t">>, <<"m", "o", "s", "t", "r", "a", "r">>, <<"e", "x", "i", "b", "i", "r">>, <<"b", "u", "s", "c", "a", "r">> }
ActionGetWords ==
    { <<"2">>, <<"o", "b", "t", "e", "r">>, <<"g", "e", "t">>, <<"d", "e", "t", "a", "l", "h", "a", "r">>, <<"d", "e", "t", "a", "l", "h", "e", "s">>, <<"v", "e", "r">> }
ActionCountWords ==
    { <<"3">>, <<"c", "o", "n", "t", "a", "r">>, <<"c", "o", "u", "n", "t">>, <<"t", "o", "t", "a", "l">> }
NoFilterWords ==
    { <<"n", "a_tilde", "o">>, <<"n", "a", "o">>, <<"s", "e", "m", " ", "f", "i", "l", "t", "r", "o">>, <<"s", "e", "m">>, <<"n">>, <<"n", "o">>, <<"n", "o", "n", "e">> }
AllFieldsWords ==
    { <<"t", "o", "d", "o", "s">>, <<"a", "l", "l">>, <<"t", "u", "d", "o">>, <<"*">> }
DefaultOrderWords ==
    { <<"p", "a", "d", "r", "a_tilde", "o">>, <<"p", "a", "d", "r", "a", "o">>, <<"d", "e", "f", "a", "u", "l", "t">>, <<"s", "e", "m">>, <<"n", "a_tilde", "o">>, <<"n", "a", "o">> }
DefaultLimitWords ==
    { <<"p", "a", "d", "r", "a_tilde", "o">>, <<"p", "a", "d", "r", "a", "o">>, <<"d", "e", "f", "a", "u", "l", "t">>, <<"s", "e", "m">>, <<"n", "a_tilde", "o">>, <<"n", "a", "o">> }
AffirmativeWords ==
    { <<"s", "i", "m">>, <<"y", "e", "s">>, <<"s">>, <<"y">>, <<"c", "o", "n", "f", "i", "r", "m", "a", "r">>, <<"e", "x", "e", "c", "u", "t", "a", "r">>, <<"o", "k">> }
NegativeWords ==
    { <<"n", "a_tilde", "o">>, <<"n", "a", "o">>, <<"n", "o">>, <<"n">>, <<"c", "a", "n", "c", "e", "l", "a", "r">>, <<"c", "a", "n", "c", "e", "l">> }

DefaultOrderBy == <<"c", "r", "e", "a", "t", "e", "d", "o", "n", " ", "d", "e", "s", "c">>
DefaultLimit == 50

(* A regular expression of the form (\w+) SEP (.+) or (\w+) SEP, searched   *)
(* anywhere in the text.  SEP is a sequence of atoms: a run of white space  *)
(* of at least min characters, or one character out of a set.               *)
WS1 == [ws |-> TRUE, min |-> 1, set |-> {}]
WS0 == [ws |-> TRUE, min |-> 0, set |-> {}]
Ch(S) == [ws |-> FALSE, min |-> 1, set |-> S]
Lit(w) == [i \in 1..Len(w) |-> Ch({w[i]})]

\* The positions at which a match of sep[i..] that starts at position p can end
\* (the index of the first character after the match).
RECURSIVE SepEnds(_, _, _, _)
SepEnds(sep, i, p, str) ==
    IF i > Len(sep) THEN {p}
    ELSE IF ~sep[i].ws
    THEN IF p <= Len(str) /\ str[p] \in sep[i].set
         THEN SepEnds(sep, i + 1, p + 1, str)
         ELSE {}
    ELSE UNION { SepEnds(sep, i + 1, p + n, str) :
                 n \in { m \in sep[i].min..(Len(str) - p + 1) :
                           \A j \in p..(p + m - 1) : IsSpace(str[j]) } }

\* The end of the line that holds position q: "." matches no line terminator
RECURSIVE LineEnd(_, _)
LineEnd(str, q) ==
    IF q < Len(str) /\ str[q + 1] # "\n" THEN LineEnd(str, q + 1) ELSE q

\* The last character of the run of \w that holds position e
RECURSIVE WordEnd(_, _)
WordEnd(str, e) ==
    IF e < Len(str) /\ IsWordChar(str[e + 1]) THEN WordEnd(str, e + 1) ELSE e

\* The ends of SEP after which, when the expression ends in (.+), a character of
\* the line is left
ValueEnds(ends, needValue, str) ==
    { p \in ends : needValue => (p <= Len(str) /\ str[p] # "\n") }

\* The white space is greedy: the last end
LastEnd(ends) == CHOOSE q \in ends : \A p \in ends : p <= q

\* The match <<s, e, q>> that starts at s, (\w+) = str[s..e] as long as it can be
\* and at most up to e: SEP ends before q.  << >> when there is none.
RECURSIVE MatchFrom(_, _, _, _, _)
RECURSIVE MatchEnds(_, _, _, _, _, _)
MatchEnds(sep, needValue, str, s, e, ends) ==
    IF ends = {} THEN MatchFrom(sep, needValue, str, s, e - 1)
    ELSE << s, e, LastEnd(ends) >>
MatchFrom(sep, needValue, str, s, e) ==
    IF e < s THEN << >>
    ELSE MatchEnds(sep, needValue, str, s, e,
                   ValueEnds(SepEnds(sep, 1, e + 1, str), needValue, str))

\* The leftmost match that starts at s or after it
RECURSIVE MatchAt(_, _, _, _)
RECURSIVE MatchOrNext(_, _, _, _, _)
MatchOrNext(m, sep, needValue, str, s) ==
    IF m # << >> THEN m ELSE MatchAt(sep, needValue, str, s + 1)
MatchAt(sep, needValue, str, s) ==
    IF s > Len(str) THEN << >>
    ELSE IF ~IsWordChar(str[s]) THEN MatchAt(sep, needValue, str, s + 1)
    ELSE MatchOrNext(MatchFrom(sep, needValue, str, s, WordEnd(str, s)),
                     sep, needValue, str, s)

\* The groups of a match
Groups(m, needValue, str) ==
    IF m = << >> THEN None
    ELSE Some([g1 |-> SubSeq(str, m[1], m[2]),
               g2 |-> IF needValue THEN SubSeq(str, m[3], LineEnd(str, m[3]))
                      ELSE << >>])

\* String.prototype.match with (\w+) SEP (.+), or (\w+) SEP when needValue is
\* FALSE: the leftmost match; (\w+) and the white space are greedy
RegexMatch(sep, needValue, str) == Groups(MatchAt(sep, needValue, str, 1), needValue, str)

op_contains == <<"c", "o", "n", "t", "a", "i", "n", "s">>
op_startswith == <<"s", "t", "a", "r", "t", "s", "w", "i", "t", "h">>
op_endswith == <<"e", "n", "d", "s", "w", "i", "t", "h">>
op_eq == <<"e", "q">>
op_ne == <<"n", "e">>
op_gt == <<"g", "t">>
op_lt == <<"l", "t">>
op_ge == <<"g", "e">>
op_le == <<"l", "e">>

\* parseFilterInput: the pattern bank, in the order of the source
filterPatterns ==
    << [sep |-> <<WS1>> \o Lit(<<"c", "o", "n", "t">>) \o <<Ch({"e", "e_acute"})>> \o Lit(<<"m">>) \o <<WS1>>,
        operator |-> op_contains],
       [sep |-> <<WS1>> \o Lit(<<"c", "o", "m", "e">>) \o <<Ch({"c_cedil", "c"})>> \o Lit(<<"a">>) \o <<WS1>>
                  \o Lit(<<"c", "o", "m">>) \o <<WS1>>,
        operator |-> op_startswith],
       [sep |-> <<WS1>> \o Lit(<<"t", "e", "r", "m", "i", "n", "a">>) \o <<WS1>> \o Lit(<<"c", "o", "m">>) \o <<WS1>>,
        operator |-> op_endswith],
       [sep |-> <<WS1>> \o Lit(<<"i", "g", "u", "a", "l">>) \o <<WS1>> \o Lit(<<"a">>) \o <<WS1>>,
        operator |-> op_eq],
       [sep |-> <<WS0>> \o Lit(<<"=">>) \o <<WS0>>, operator |-> op_eq],
       [sep |-> <<WS1>> \o Lit(<<"m", "a", "i", "o", "r">>) \o <<WS1>> \o Lit(<<"q", "u", "e">>) \o <<WS1>>,
        operator |-> op_gt],
       [sep |-> <<WS0>> \o Lit(<<">">>) \o <<WS0>>, operator |-> op_gt],
       [sep |-> <<WS1>> \o Lit(<<"m", "e", "n", "o", "r">>) \o <<WS1>> \o Lit(<<"q", "u", "e">>) \o <<WS1>>,
        operator |-> op_lt],
       [sep |-> <<WS0>> \o Lit(<<"<">>) \o <<WS0>>, operator |-> op_lt],
       [sep |-> <<WS1>> \o Lit(<<"m", "a", "i", "o", "r">>) \o <<WS1>> \o Lit(<<"o", "u">>) \o <<WS1>> \o Lit(<<"i", "g", "u", "a", "l">>)
                  \o <<WS1>> \o Lit(<<"a">>) \o <<WS1>>,
        operator |-> op_ge],
       [sep |-> <<WS0>> \o Lit(<<">", "=">>) \o <<WS0>>, operator |-> op_ge],
       [sep |-> <<WS1>> \o Lit(<<"m", "e", "n", "o", "r">>) \o <<WS1>> \o Lit(<<"o", "u">>) \o <<WS1>> \o Lit(<<"i", "g", "u", "a", "l">>)
                  \o <<WS1>> \o Lit(<<"a">>) \o <<WS1>>,
        operator |-> op_le],
       [sep |-> <<WS0>> \o Lit(<<"<", "=">>) \o <<WS0>>, operator |-> op_le],
       [sep |-> <<WS1>> \o Lit(<<"d", "i", "f", "e", "r", "e", "n", "t", "e">>) \o <<WS1>> \o Lit(<<"d", "e">>) \o <<WS1>>,
        operator |-> op_ne],
       [sep |-> <<WS0>> \o Lit(<<"!", "=">>) \o <<WS0>>, operator |-> op_ne],
       [sep |-> <<WS1>> \o Lit(<<"a", "p">>) \o <<Ch({"o_acute", "o"})>> \o Lit(<<"s">>) \o <<WS1>>,
        operator |-> op_gt],
       [sep |-> <<WS1>> \o Lit(<<"a", "n", "t", "e", "s">>) \o <<WS1>> \o Lit(<<"d", "e">>) \o <<WS1>>,
        operator |-> op_lt] >>

\* An entry of a session's filter object: key field; info is the text itself
\* (isObject = FALSE, the id of a get) or the object {operator, value}.
FilterEntry(field, isObject, operator, value) ==
    [field |-> field, isObject |-> isObject, operator |-> operator, value |-> value]

\* The value of a match, without the quotes around it
StripQuotes(value) ==
    IF \/ (startsWith(value, <<"\"">>) /\ endsWith(value, <<"\"">>))
       \/ (startsWith(value, <<"'">>) /\ endsWith(value, <<"'">>))
    THEN substring(value, 1, Len(value) - 1)
    ELSE value

\* parseFilterInput(input): the filter object (a sequence of entries) of the first
\* pattern that matches, from pattern i on; None when the source throws 'Formato
\* de filtro nao reconhecido'
RECURSIVE FirstPattern(_, _)
RECURSIVE PatternResult(_, _, _)
PatternResult(m, input, i) ==
    IF IsSome(m)
    THEN Some(<< FilterEntry(trim(Get(m).g1), TRUE, filterPatterns[i].operator,
                             StripQuotes(trim(Get(m).g2))) >>)
    ELSE FirstPattern(input, i + 1)
FirstPattern(input, i) ==
    IF i > Len(filterPatterns) THEN None
    ELSE PatternResult(RegexMatch(filterPatterns[i].sep, TRUE, input), input, i)
parseFilterInput(input) == FirstPattern(input, 1)

AscWords == << <<"a", "s", "c">>, <<"a", "s", "c", "e", "n", "d", "e", "n", "t", "e">>, <<"c", "r", "e", "s", "c", "e", "n", "t", "e">> >>
DescWords == << <<"d", "e", "s", "c">>, <<"d", "e", "s", "c", "e", "n", "d", "e", "n", "t", "e">>, <<"d", "e", "c", "r", "e", "s", "c", "e", "n", "t", "e">> >>

\* The matches of /(\w+)\s+(w1|w2|w3)/ in the text, one for each word that
\* matches, and the first group of the leftmost and longest; None when none matches
WordMatches(words, input) ==
    { MatchAt(<<WS1>> \o Lit(words[i]), FALSE, input, 1) : i \in DOMAIN words }
       \ { << >> }
FirstGroup(ms, input) ==
    IF ms = {} THEN None
    ELSE Some(Get(Groups(CHOOSE m \in ms :
                            \A o \in ms : m[1] < o[1] \/ (m[1] = o[1] /\ m[2] >= o[2]),
                         FALSE, input)).g1)
DirectionMatch(words, input) == FirstGroup(WordMatches(words, input), input)

\* parseOrderByInput(input); None when the source throws
OrderByResult(asc, desc, field) ==
    IF IsSome(asc) THEN Some(trim(Get(asc)) \o <<" ", "a", "s", "c">>)
    ELSE IF IsSome(desc) THEN Some(trim(Get(desc)) \o <<" ", "d", "e", "s", "c">>)
    ELSE IF Len(field) > 0 /\ \A i \in 1..Len(field) : IsWordChar(field[i])
         THEN Some(field \o <<" ", "a", "s", "c">>)
    ELSE None
parseOrderByInput(input) ==
    OrderByResult(DirectionMatch(AscWords, input), DirectionMatch(DescWords, input),
                  trim(input))

\* buildODataFilter(entity, filters)
ODataClause(entity, f) ==
    IF f.field = <<"i", "d">>
    THEN (IF endsWith(entity, <<"s">>) THEN substring(entity, 0, Len(entity) - 1) ELSE entity)
         \o <<"i", "d", " ", "e", "q", " ">> \o (IF f.isObject THEN <<"[", "o", "b", "j", "e", "c", "t", " ", "O", "b", "j", "e", "c", "t", "]">> ELSE f.value)
    ELSE IF ~f.isObject THEN << >>
    ELSE IF f.operator \in {op_eq, op_ne, op_gt, op_lt, op_ge, op_le}
    THEN f.field \o <<" ">> \o f.operator \o <<" ", "'">> \o f.value \o <<"'">>
    ELSE IF f.operator \in {op_contains, op_startswith, op_endswith}
    THEN f.operator \o <<"(">> \o f.field \o <<",", " ", "'">> \o f.value \o <<"'", ")">>
    ELSE << >>

\* The entries buildODataFilter pushes a clause for (an unsupported operator is skipped)
HasClause(f) ==
    \/ f.field = <<"i", "d">>
    \/ /\ f.isObject
       /\ f.operator \in {op_eq, op_ne, op_gt, op_lt, op_ge, op_le,
                          op_contains, op_startswith, op_endswith}

buildODataFilter(entity, filters) ==
    join([i \in 1..Len(SelectSeq(filters, HasClause)) |->
             ODataClause(entity, SelectSeq(filters, HasClause)[i])], <<" ", "a", "n", "d", " ">>)

---------------------------------------------------------------------------
(* QueryAssistantService: the sessions and the step handlers.              *)

MaxSessions == 2      \* session ids startSession hands out in SpecStore
MaxWalkSessions == 1  \* session ids startSession hands out in Spec
MaxInFlight == 2      \* calls of processInput in flight for one id in SpecRace
MaxRecords == 1       \* records a connector query returns at most
MaxTick == 1          \* steps of the clock, of each length
MaxSchemaVersion == 1 \* changes of the schema the CRM holds
MaxCachedDocuments == 1  \* documents the connector fetches and keeps

sessionExpirationMinutes == 30
cacheExpirationMs == 3600000

\* Date.now() when the process starts: later than the epoch by more than any
\* expiry window of the program
BootTime == 2 * cacheExpirationMs
SessionExpirationMs == sessionExpirationMinutes * 60 * 1000

SessionIds == 1..(MaxSessions + 1)

\* The entities the connector has a schema for: getEntityMetadata resolves for
\* these (or fails), and fails for any other name.
ConnectorEntities == { <<"a", "c", "c", "o", "u", "n", "t", "s">> }

\* What the user types.  Every text is sent at every step.
WalkInputs ==
    { <<"C", "o", "n", "t", "a", "s">>, <<"l", "i", "s", "t", "a", "r">>, <<"2">>, <<"c", "o", "n", "t", "a", "r">>, <<"n", "a_tilde", "o">>, <<"t", "o", "d", "o", "s">>, <<"p", "a", "d", "r", "a_tilde", "o">>,
      <<" ", "S", "i", "m">>, <<"n", "o", "m", "e", " ", "=", " ", "x">>, <<"0">> }
StoreInputs ==
    { <<"c", "o", "n", "t", "a", "s">>, <<"c", "o", "n", "t", "a", "r">> }
RaceInputs ==
    { <<"c", "o", "n", "t", "a", "s">>, <<"l", "i", "s", "t", "a", "r">>, <<"n", "a_tilde", "o">>, <<"x", "y", "z">> }

\* The parse of every text the user types, computed once
NormalizedInputs ==
    { toLowerCase(trim(input)) :
        input \in WalkInputs \cup StoreInputs \cup RaceInputs
                  \cup { <<"1", "2", "3">>, <<"i", "d", " ", "=", " ", "1", "2", "3">>, <<"I", "D", " ", "=", " ", "a", "b", "c">>, <<"i", "d", "=", "5">>, <<"n", "o", "m", "e", " ", "=", " ", "x">> } }
FilterOf == [ text \in NormalizedInputs |-> parseFilterInput(text) ]
OrderByOf == [ text \in NormalizedInputs |-> parseOrderByInput(text) ]

\* The session object startSession builds
NewSession(t) ==
    [ startTime |-> t, lastActivity |-> t, currentStep |-> "entity",
      entity |-> None, action |-> None, filter |-> None, fields |-> None,
      orderBy |-> None, limit |-> None, completed |-> FALSE ]

\* What an operation returned: for processInput {message, completed, result}
Response(op, sid, message, completed, result) ==
    [ op |-> op, sid |-> sid, message |-> message, completed |-> completed,
      result |-> result ]

\* A connector call the assistant awaits, with the arguments of the call
MetadataCall(sid, entity) ==
    [ sid |-> sid, kind |-> "getEntityMetadata", entity |-> entity, action |-> "",
      filter |-> None, filterText |-> << >>, select |-> None, orderBy |-> None,
      top |-> None ]
QueryCall(sid, entity, action, filterText, select, orderBy, top) ==
    [ sid |-> sid, kind |-> "queryEntities", entity |-> entity, action |-> action,
      filter |-> IF filterText = << >> THEN None ELSE Some(filterText),
      filterText |-> filterText, select |-> select, orderBy |-> orderBy, top |-> top ]

\* What a step handler does before it returns or awaits: the session object as
\* it leaves it, the connector call it awaits (if any), the reply (if it returns)
Outcome(session, call, message) ==
    [ session |-> session, call |-> call, message |-> message ]

\* !x of an optional text
Falsy(o) == o = None \/ o = Some(<< >>)

\* processEntityStep up to its await
processEntityStep(sid, session, input) ==
    LET normalizedInput == toLowerCase(trim(input))
        entity == MapEntity(normalizedInput)
    IN  Outcome(session, Some(MetadataCall(sid, entity)), None)

\* processEntityStep from its await on: the connector resolved (ok) or threw
processEntityStepResume(session, call, ok) ==
    IF ok
    THEN Outcome([session EXCEPT !.entity = Some(call.entity), !.currentStep = "action"],
                 None, Some("entity_selected"))
    ELSE Outcome(session, None, Some("entity_not_recognized"))

\* processActionStep that starts over when it does not recognize the action
processActionStepStartsOver(session, input) ==
    LET normalizedInput == toLowerCase(trim(input))
    IN  IF normalizedInput \in ActionListWords
        THEN Outcome([session EXCEPT !.action = Some("list"), !.currentStep = "filter"],
                     None, Some("action_list_or_count"))
        ELSE IF normalizedInput \in ActionGetWords
        THEN Outcome([session EXCEPT !.action = Some("get"), !.currentStep = "filter"],
                     None, Some("action_get"))
        ELSE IF normalizedInput \in ActionCountWords
        THEN Outcome([session EXCEPT !.action = Some("count"), !.currentStep = "filter"],
                     None, Some("action_list_or_count"))
        ELSE Outcome([session EXCEPT !.entity = None, !.currentStep = "entity"],
                     None, Some("action_not_recognized"))

processActionStep(session, input) ==
    LET normalizedInput == toLowerCase(trim(input))
    IN  IF normalizedInput \in ActionListWords
        THEN Outcome([session EXCEPT !.action = Some("list"), !.currentStep = "filter"],
                     None, Some("action_list_or_count"))
        ELSE IF normalizedInput \in ActionGetWords
        THEN Outcome([session EXCEPT !.action = Some("get"), !.currentStep = "filter"],
                     None, Some("action_get"))
        ELSE IF normalizedInput \in ActionCountWords
        THEN Outcome([session EXCEPT !.action = Some("count"), !.currentStep = "filter"],
                     None, Some("action_list_or_count"))
        ELSE Outcome(session, None, Some("action_not_recognized"))

\* processFilterStep that goes back to the action step
processFilterStepGoesBack(session, input) ==
    LET normalizedInput == toLowerCase(trim(input))
        done(filter) ==
            Outcome([session EXCEPT !.filter = Some(filter), !.currentStep = "action"],
                    None, Some("filter_defined"))
    IN  IF normalizedInput \in NoFilterWords THEN done(<< >>)
        ELSE IF session.action = Some("get")
        THEN done(<< FilterEntry(<<"i", "d">>, FALSE, << >>, trim(input)) >>)
        ELSE IF IsSome(FilterOf[normalizedInput])
        THEN done(Get(FilterOf[normalizedInput]))
        ELSE Outcome(session, None, Some("filter_not_understood"))

\* processFilterStep that leaves the filter undefined when the user wants none
processFilterStepLeavesFilter(session, input) ==
    LET normalizedInput == toLowerCase(trim(input))
        done(filter) ==
            Outcome([session EXCEPT !.filter = Some(filter), !.currentStep = "fields"],
                    None, Some("filter_defined"))
    IN  IF normalizedInput \in NoFilterWords
        THEN Outcome([session EXCEPT !.currentStep = "fields"], None, Some("filter_defined"))
        ELSE IF session.action = Some("get")
        THEN done(<< FilterEntry(<<"i", "d">>, FALSE, << >>, trim(input)) >>)
        ELSE IF IsSome(FilterOf[normalizedInput])
        THEN done(Get(FilterOf[normalizedInput]))
        ELSE Outcome(session, None, Some("filter_not_understood"))

processFilterStep(session, input) ==
    LET normalizedInput == toLowerCase(trim(input))
        done(filter) ==
            Outcome([session EXCEPT !.filter = Some(filter), !.currentStep = "fields"],
                    None, Some("filter_defined"))
    IN  IF normalizedInput \in NoFilterWords THEN done(<< >>)
        ELSE IF session.action = Some("get")
        THEN done(<< FilterEntry(<<"i", "d">>, FALSE, << >>, trim(input)) >>)
        ELSE IF IsSome(FilterOf[normalizedInput])
        THEN done(Get(FilterOf[normalizedInput]))
        ELSE Outcome(session, None, Some("filter_not_understood"))

NonEmpty(field) == field # << >>

\* processFieldsStep that goes to the confirmation for every action
processFieldsStepSkipsOrder(session, input) ==
    LET normalizedInput == toLowerCase(trim(input))
        parts == splitComma(normalizedInput)
        fields == IF normalizedInput \in AllFieldsWords THEN None
                  ELSE Some(SelectSeq([i \in 1..Len(parts) |-> trim(parts[i])], NonEmpty))
        s1 == [session EXCEPT !.fields = fields]
    IN  IF session.action = Some("count")
        THEN Outcome([s1 EXCEPT !.currentStep = "confirm"], None, Some("fields_ignored_summary"))
        ELSE Outcome([s1 EXCEPT !.currentStep = "confirm"], None, Some("fields_defined_summary"))

processFieldsStep(session, input) ==
    LET normalizedInput == toLowerCase(trim(input))
        parts == splitComma(normalizedInput)
        fields == IF normalizedInput \in AllFieldsWords THEN None
                  ELSE Some(SelectSeq([i \in 1..Len(parts) |-> trim(parts[i])], NonEmpty))
        s1 == [session EXCEPT !.fields = fields]
    IN  IF session.action = Some("get")
        THEN Outcome([s1 EXCEPT !.currentStep = "confirm"], None, Some("fields_defined_summary"))
        ELSE IF session.action = Some("count")
        THEN Outcome([s1 EXCEPT !.currentStep = "confirm"], None, Some("fields_ignored_summary"))
        ELSE Outcome([s1 EXCEPT !.currentStep = "orderBy"], None, Some("fields_defined"))

\* processOrderByStep that goes to the confirmation
processOrderByStepSkipsLimit(session, input) ==
    LET normalizedInput == toLowerCase(trim(input))
        done(orderBy) ==
            Outcome([session EXCEPT !.orderBy = Some(orderBy), !.currentStep = "confirm"],
                    None, Some("order_defined"))
    IN  IF normalizedInput \in DefaultOrderWords THEN done(DefaultOrderBy)
        ELSE IF IsSome(OrderByOf[normalizedInput])
        THEN done(Get(OrderByOf[normalizedInput]))
        ELSE Outcome(session, None, Some("order_not_understood"))

processOrderByStep(session, input) ==
    LET normalizedInput == toLowerCase(trim(input))
        done(orderBy) ==
            Outcome([session EXCEPT !.orderBy = Some(orderBy), !.currentStep = "limit"],
                    None, Some("order_defined"))
    IN  IF normalizedInput \in DefaultOrderWords THEN done(DefaultOrderBy)
        ELSE IF IsSome(OrderByOf[normalizedInput])
        THEN done(Get(OrderByOf[normalizedInput]))
        ELSE Outcome(session, None, Some("order_not_understood"))

processLimitStep(session, input) ==
    LET normalizedInput == toLowerCase(trim(input))
        limit == parseInt(normalizedInput)
        done(n) ==
            Outcome([session EXCEPT !.limit = Some(n), !.currentStep = "confirm"],
                    None, Some("limit_defined_summary"))
    IN  IF normalizedInput \in DefaultLimitWords THEN done(DefaultLimit)
        ELSE IF limit = None \/ Get(limit) <= 0
        THEN Outcome(session, None, Some("limit_invalid"))
        ELSE done(Get(limit))

CountSelect == << <<"c", "r", "e", "a", "t", "e", "d", "o", "n">> >>
CountTop == 1000
GetTop == 1

\* executeQuery up to its await: None when it throws 'Parametros de consulta
\* incompletos' or 'Acao nao suportada', else the call to queryEntities
executeQuery(sid, session) ==
    IF Falsy(session.entity) \/ session.action = None THEN None
    ELSE LET entity == Get(session.entity)
             filter == buildODataFilter(entity,
                           IF session.filter = None THEN << >> ELSE Get(session.filter))
         IN  CASE session.action = Some("list") ->
                    Some(QueryCall(sid, entity, "list", filter, session.fields,
                                   session.orderBy, session.limit))
               [] session.action = Some("get") ->
                    Some(QueryCall(sid, entity, "get", filter, session.fields,
                                   None, Some(GetTop)))
               [] session.action = Some("count") ->
                    Some(QueryCall(sid, entity, "count", filter, Some(CountSelect),
                                   None, Some(CountTop)))
               [] OTHER -> None

\* What executeQuery returns once queryEntities resolved with n records; None when
\* it throws 'Nenhum registro encontrado'
QueryResult(call, n) ==
    CASE call.action = "list" ->
            Some([kind |-> "records", n |-> n, entity |-> << >>, filter |-> << >>])
      [] call.action = "get" ->
            IF n = 0 THEN None
            ELSE Some([kind |-> "record", n |-> 1, entity |-> << >>, filter |-> << >>])
      [] OTHER ->
            Some([kind |-> "count", n |-> n, entity |-> call.entity,
                  filter |-> call.filterText])

\* processConfirmStep that forgets to clear the entity when the user cancels
processConfirmStepKeepsEntity(sid, session, input) ==
    LET normalizedInput == toLowerCase(trim(input))
    IN  IF normalizedInput \in AffirmativeWords
        THEN IF IsSome(executeQuery(sid, session))
             THEN Outcome(session, executeQuery(sid, session), None)
             ELSE Outcome(session, None, Some("query_error"))
        ELSE IF normalizedInput \in NegativeWords
        THEN Outcome([session EXCEPT !.currentStep = "entity",
                                     !.action = None, !.filter = None, !.fields = None,
                                     !.orderBy = None, !.limit = None],
                     None, Some("query_cancelled"))
        ELSE Outcome(session, None, Some("confirm_not_recognized"))

\* processConfirmStep up to its await
processConfirmStep(sid, session, input) ==
    LET normalizedInput == toLowerCase(trim(input))
    IN  IF normalizedInput \in AffirmativeWords
        THEN IF IsSome(executeQuery(sid, session))
             THEN Outcome(session, executeQuery(sid, session), None)
             ELSE Outcome(session, None, Some("query_error"))
        ELSE IF normalizedInput \in NegativeWords
        THEN Outcome([session EXCEPT !.currentStep = "entity", !.entity = None,
                                     !.action = None, !.filter = None, !.fields = None,
                                     !.orderBy = None, !.limit = None],
                     None, Some("query_cancelled"))
        ELSE Outcome(session, None, Some("confirm_not_recognized"))

\* processConfirmStep that starts the conversation over when the query fails
processConfirmStepResumeStartsOver(session, result) ==
    IF IsSome(result)
    THEN Outcome([session EXCEPT !.completed = TRUE], None, Some("query_executed"))
    ELSE Outcome([session EXCEPT !.currentStep = "entity"], None, Some("query_error"))

\* processConfirmStep from its await on: result is what executeQuery returned,
\* None when it threw
processConfirmStepResume(session, result) ==
    IF IsSome(result)
    THEN Outcome([session EXCEPT !.completed = TRUE], None, Some("query_executed"))
    ELSE Outcome(session, None, Some("query_error"))

\* The switch of processInput on session.currentStep
StepHandler(sid, session, input) ==
    CASE session.currentStep = "entity" -> processEntityStep(sid, session, input)
      [] session.currentStep = "action" -> processActionStep(session, input)
      [] session.currentStep = "filter" -> processFilterStep(session, input)
      [] session.currentStep = "fields" -> processFieldsStep(session, input)
      [] session.currentStep = "orderBy" -> processOrderByStep(session, input)
      [] session.currentStep = "limit" -> processLimitStep(session, input)
      [] session.currentStep = "confirm" -> processConfirmStep(sid, session, input)
      [] OTHER -> Outcome(session, None, Some("unknown_step"))

PendingOf(calls, sid) == { i \in DOMAIN calls : calls[i].sid = sid }
Idle(sid) == PendingOf(pending, sid) = {}

\* The session objects something still refers to: the Map, or a suspended handler
Collect(os, map, calls) ==
    [ id \in { i \in DOMAIN os : i \in map \/ PendingOf(calls, i) # {} } |-> os[id] ]

RemoveAt(seq, i) == SubSeq(seq, 1, i - 1) \o SubSeq(seq, i + 1, Len(seq))

---------------------------------------------------------------------------
(* The operations of the assistant.                                        *)

\* startSession(); the id is new (Date.now() and a random suffix)
StartSession(maxIds) ==
    /\ nextId <= maxIds
    /\ sessions' = sessions \cup {nextId}
    /\ objs' = [ id \in DOMAIN objs \cup {nextId} |->
                   IF id = nextId THEN NewSession(now) ELSE objs[id] ]
    /\ nextId' = nextId + 1
    /\ last' = Response("startSession", nextId, "welcome", FALSE, None)
    /\ UNCHANGED <<pending, now>>

\* processInput that opens a session for an id the store does not hold
ProcessInputOpensSession(sid, input) ==
    LET known == IF sid \in sessions THEN objs[sid] ELSE NewSession(now)
        session == [known EXCEPT !.lastActivity = now]
        out == StepHandler(sid, session, input)
    IN  /\ sessions' = sessions \cup {sid}
        /\ objs' = [ id \in DOMAIN objs \cup {sid} |->
                       IF id = sid THEN out.session ELSE objs[id] ]
        /\ pending' = IF IsSome(out.call) THEN Append(pending, Get(out.call))
                      ELSE pending
        /\ last' = IF IsSome(out.message)
                   THEN Response("processInput", sid, Get(out.message), FALSE, None)
                   ELSE Response("await", sid, "", FALSE, None)
        /\ UNCHANGED <<nextId, now>>

\* processInput(sessionId, input), up to its first await or to its return
ProcessInput(sid, input) ==
    IF sid \notin sessions
    THEN /\ last' = Response("processInput", sid, "session_not_found", FALSE, None)
         /\ UNCHANGED <<sessions, objs, nextId, pending, now>>
    ELSE LET session == [objs[sid] EXCEPT !.lastActivity = now]
             out == StepHandler(sid, session, input)
         IN  /\ objs' = [objs EXCEPT ![sid] = out.session]
             /\ pending' = IF IsSome(out.call) THEN Append(pending, Get(out.call))
                           ELSE pending
             /\ last' = IF IsSome(out.message)
                        THEN Response("processInput", sid, Get(out.message), FALSE, None)
                        ELSE Response("await", sid, "", FALSE, None)
             /\ UNCHANGED <<sessions, nextId, now>>

\* The handler that takes up again puts its session back into the Map
ResumeStoresSession(i, out, completed, result) ==
    LET call == pending[i]
    IN  /\ pending' = RemoveAt(pending, i)
        /\ sessions' = sessions \cup {call.sid}
        /\ objs' = Collect([objs EXCEPT ![call.sid] = out.session], sessions', pending')
        /\ last' = Response("processInput", call.sid, Get(out.message), completed, result)
        /\ UNCHANGED <<nextId, now>>

\* The handler suspended on call i takes up again and processInput returns
Resume(i, out, completed, result) ==
    LET call == pending[i]
    IN  /\ pending' = RemoveAt(pending, i)
        /\ objs' = Collect([objs EXCEPT ![call.sid] = out.session], sessions, pending')
        /\ last' = Response("processInput", call.sid, Get(out.message), completed, result)
        /\ UNCHANGED <<sessions, nextId, now>>

\* getEntityMetadata resolves: the connector has the entity.  For an entity set
\* name ("accounts") that is the connector without credentials, which answers from
\* simulateEntityMetadata and files nothing in metadataCache
MetadataResolves(i) ==
    /\ i \in DOMAIN pending
    /\ pending[i].kind = "getEntityMetadata"
    /\ pending[i].entity \in ConnectorEntities
    /\ Resume(i, processEntityStepResume(objs[pending[i].sid], pending[i], TRUE),
              FALSE, None)

\* getEntityMetadata throws: no such entity, or the call failed
MetadataRejects(i) ==
    /\ i \in DOMAIN pending
    /\ pending[i].kind = "getEntityMetadata"
    /\ Resume(i, processEntityStepResume(objs[pending[i].sid], pending[i], FALSE),
              FALSE, None)

\* queryEntities resolves with n records
QueryResolves(i, n) ==
    /\ i \in DOMAIN pending
    /\ pending[i].kind = "queryEntities"
    /\ LET result == QueryResult(pending[i], n)
       IN  Resume(i, processConfirmStepResume(objs[pending[i].sid], result),
                  IsSome(result), result)

\* queryEntities throws
QueryRejects(i) ==
    /\ i \in DOMAIN pending
    /\ pending[i].kind = "queryEntities"
    /\ Resume(i, processConfirmStepResume(objs[pending[i].sid], None), FALSE, None)

\* endSession that clears the whole Map
EndSessionClearsAll(sid) ==
    /\ sessions' = {}
    /\ objs' = Collect(objs, sessions', pending)
    /\ last' = Response("endSession", sid, IF sid \in sessions THEN "true" ELSE "false",
                        FALSE, None)
    /\ UNCHANGED <<nextId, pending, now>>

\* endSession(sessionId): Map.delete, true when the id was a key
EndSession(sid) ==
    /\ sessions' = sessions \ {sid}
    /\ objs' = Collect(objs, sessions', pending)
    /\ last' = Response("endSession", sid, IF sid \in sessions THEN "true" ELSE "false",
                        FALSE, None)
    /\ UNCHANGED <<nextId, pending, now>>

\* The test of the sweep with >= for >
ExpiredAtWindow(session, t) == t >= session.lastActivity + SessionExpirationMs

\* The test cleanupExpiredSessions makes of a session at time t
Expired(session, t) == t > session.lastActivity + SessionExpirationMs

\* cleanupExpiredSessions(), the callback of the constructor's setInterval; what
\* it reports is expiredCount
CleanupExpiredSessions ==
    /\ sessions' = { id \in sessions : ~Expired(objs[id], now) }
    /\ objs' = Collect(objs, sessions', pending)
    /\ last' = Response("cleanupExpiredSessions", 0, "", FALSE,
                        Some(Cardinality(sessions \ sessions')))
    /\ UNCHANGED <<nextId, pending, now>>

\* Time passes: one millisecond, or the expiry window
TickSteps == {1, SessionExpirationMs}
Tick(d) ==
    /\ (now + d - BootTime) % SessionExpirationMs <= MaxTick
    /\ (now + d - BootTime) \div SessionExpirationMs <= MaxTick
    /\ now' = now + d
    /\ last' = Response("tick", 0, "", FALSE, None)
    /\ UNCHANGED <<sessions, objs, nextId, pending>>

AssistantInit ==
    /\ sessions = {}
    /\ objs = << >>
    /\ nextId = 1
    /\ pending = << >>
    /\ now = BootTime
    /\ last = Response("init", 0, "", FALSE, None)
    /\ raced = {}

---------------------------------------------------------------------------
(* MetadataExplorerService: the metadata cache.                            *)

commonMappings ==
    << << <<"a", "c", "c", "o", "u", "n", "t">>, <<"a", "c", "c", "o", "u", "n", "t">> >>, << <<"a", "c", "c", "o", "u", "n", "t", "s">>, <<"a", "c", "c", "o", "u", "n", "t">> >>,
       << <<"c", "o", "n", "t", "a", "c", "t">>, <<"c", "o", "n", "t", "a", "c", "t">> >>, << <<"c", "o", "n", "t", "a", "c", "t", "s">>, <<"c", "o", "n", "t", "a", "c", "t">> >>,
       << <<"o", "p", "p", "o", "r", "t", "u", "n", "i", "t", "y">>, <<"o", "p", "p", "o", "r", "t", "u", "n", "i", "t", "y">> >>, << <<"o", "p", "p", "o", "r", "t", "u", "n", "i", "t", "i", "e", "s">>, <<"o", "p", "p", "o", "r", "t", "u", "n", "i", "t", "y">> >>,
       << <<"l", "e", "a", "d">>, <<"l", "e", "a", "d">> >>, << <<"l", "e", "a", "d", "s">>, <<"l", "e", "a", "d">> >>,
       << <<"c", "a", "s", "e">>, <<"i", "n", "c", "i", "d", "e", "n", "t">> >>, << <<"c", "a", "s", "e", "s">>, <<"i", "n", "c", "i", "d", "e", "n", "t">> >>,
       << <<"i", "n", "c", "i", "d", "e", "n", "t">>, <<"i", "n", "c", "i", "d", "e", "n", "t">> >>, << <<"i", "n", "c", "i", "d", "e", "n", "t", "s">>, <<"i", "n", "c", "i", "d", "e", "n", "t">> >>,
       << <<"a", "c", "t", "i", "v", "i", "t", "y">>, <<"a", "c", "t", "i", "v", "i", "t", "y">> >>, << <<"a", "c", "t", "i", "v", "i", "t", "i", "e", "s">>, <<"a", "c", "t", "i", "v", "i", "t", "y">> >> >>

\* Values that are no strings: what the object literal commonMappings inherits
\* from Object.prototype under a name in lower case, and the TypeError a method
\* call on them throws
FunctionObject == << "[Function: Object]" >>
PrototypeObject == << "[Object: null prototype] {}" >>
TypeError == << "TypeError" >>
InheritedProperties ==
    << << <<"c", "o", "n", "s", "t", "r", "u", "c", "t", "o", "r">>, FunctionObject >>, << <<"_", "_", "p", "r", "o", "t", "o", "_", "_">>, PrototypeObject >> >>
IsString(v) == v \notin {FunctionObject, PrototypeObject, TypeError}

\* table[key] of an object literal: its own property, else the inherited one,
\* else undefined
Lookup(table, key) ==
    IF \E i \in DOMAIN table : table[i][1] = key
    THEN Some(table[CHOOSE i \in DOMAIN table : table[i][1] = key][2])
    ELSE IF \E i \in DOMAIN InheritedProperties : InheritedProperties[i][1] = key
    THEN Some(InheritedProperties[CHOOSE i \in DOMAIN InheritedProperties :
                                      InheritedProperties[i][1] = key][2])
    ELSE None

\* normalizeEntityName: commonMappings[lower] when it is truthy, else the name in
\* lower case (singularName is computed by the source and never used);
\* entityName.endsWith throws on a value that is no string
normalizeEntityName(entityName) ==
    IF ~IsString(entityName) THEN TypeError
    ELSE IF IsSome(Lookup(commonMappings, toLowerCase(entityName)))
    THEN Get(Lookup(commonMappings, toLowerCase(entityName)))
    ELSE toLowerCase(entityName)

\* The schema the CRM holds: per entity its labels and its attributes
RemoteAttribute(name, type, hasOptionSet) ==
    [ LogicalName |-> name, AttributeType |-> type, OptionSet |-> hasOptionSet ]
RemoteSchema ==
    << [ LogicalName |-> <<"a", "c", "c", "o", "u", "n", "t">>, Label |-> Some(<<"C", "o", "n", "t", "a">>), SchemaName |-> <<"A", "c", "c", "o", "u", "n", "t">>,
         CollectionLabel |-> None, EntitySetName |-> Some(<<"a", "c", "c", "o", "u", "n", "t", "s">>),
         Attributes |-> << RemoteAttribute("accountid", "Uniqueidentifier", FALSE),
                           RemoteAttribute("industrycode", "Picklist", TRUE) >> ],
       [ LogicalName |-> <<"i", "n", "c", "i", "d", "e", "n", "t">>, Label |-> None, SchemaName |-> <<"I", "n", "c", "i", "d", "e", "n", "t">>,
         CollectionLabel |-> Some(<<"C", "a", "s", "o", "s">>), EntitySetName |-> None,
         Attributes |-> << RemoteAttribute("title", "String", FALSE) >> ] >>
RemoteNames == { RemoteSchema[i].LogicalName : i \in DOMAIN RemoteSchema }

\* An administrator of the CRM renames its entities: the label every entity shows
\* after the schema changed once, twice
ChangedLabels == << Some(<<"C", "l", "i", "e", "n", "t", "e">>), Some(<<"E", "m", "p", "r", "e", "s", "a">>) >>
RemoteRow(name) == RemoteSchema[CHOOSE i \in DOMAIN RemoteSchema :
                                    RemoteSchema[i].LogicalName = name]
RemoteEntityAt(name, version) ==
    IF version = 0 THEN RemoteRow(name)
    ELSE [RemoteRow(name) EXCEPT
             !.Label = ChangedLabels[IF version < Len(ChangedLabels)
                                     THEN version ELSE Len(ChangedLabels)]]
\* The schema the CRM holds now
RemoteEntity(name) == RemoteEntityAt(name, schemaVersion)

\* The names the callers ask for
NameInputs == { <<"A", "c", "c", "o", "u", "n", "t">>, <<"c", "a", "s", "e", "s">>, <<"x", "y", "z">> }

\* The options of getEntityDetails the model draws: includeAttributes is
\* undefined (None), true or false
DetailOptions ==
    [ includeAttributes : {None, Some(TRUE), Some(FALSE)},
      includeOptionSets : BOOLEAN, refresh : BOOLEAN ]
Truthy(o) == o = Some(TRUE)

OptionSetTypes == {"Picklist", "Status", "State", "Boolean"}

\* The document getEntityMetadata returns for the entity: its attributes are in
\* it when they were asked for (withAttributes)
EntityDocument(name, withAttributes) ==
    [ LogicalName |-> name, Label |-> RemoteEntity(name).Label,
      SchemaName |-> RemoteEntity(name).SchemaName,
      CollectionLabel |-> RemoteEntity(name).CollectionLabel,
      EntitySetName |-> RemoteEntity(name).EntitySetName,
      Attributes |-> IF withAttributes THEN Some(RemoteEntity(name).Attributes) ELSE None ]

\* a || b over optional text, with the logical name as the last resort
FirstOf(a, b) == IF IsSome(a) THEN Get(a) ELSE b

\* The entry refreshEntityCache writes for one row of EntityDefinitions
BareEntry(row) ==
    [ name |-> row.LogicalName,
      displayName |-> FirstOf(row.Label, row.LogicalName),
      displayCollectionName |-> FirstOf(row.CollectionLabel, row.LogicalName),
      attributes |-> << >>, relationships |-> << >> ]

\* The attribute loadEntityDetails maps from the document
LoadedAttribute(attr, options) ==
    [ name |-> attr.LogicalName, type |-> attr.AttributeType,
      optionSet |-> /\ options.includeOptionSets
                    /\ attr.OptionSet
                    /\ attr.AttributeType \in OptionSetTypes ]

\* The entry loadEntityDetails writes from the document of the connector
LoadedEntry(doc, options) ==
    [ name |-> doc.LogicalName,
      displayName |-> FirstOf(doc.Label, doc.SchemaName),
      displayCollectionName |->
          FirstOf(doc.CollectionLabel, FirstOf(doc.EntitySetName, doc.LogicalName)),
      attributes |->
          IF Truthy(options.includeAttributes) /\ IsSome(doc.Attributes)
          THEN [ i \in 1..Len(Get(doc.Attributes)) |->
                   LoadedAttribute(Get(doc.Attributes)[i], options) ]
          ELSE << >>,
      relationships |-> << >> ]

\* isCacheExpired()
isCacheExpired(c, t) == t - c.lastUpdated > cacheExpirationMs

Cached(c, name) == name \in DOMAIN c.entities

\* The condition of getEntityDetails without its test for attributes asked for
\* and not cached
NeedsLoadIgnoresPartial(c, t, name, options) ==
    \/ options.refresh
    \/ isCacheExpired(c, t)
    \/ ~Cached(c, name)
    \/ /\ options.includeOptionSets
       /\ ~\E i \in DOMAIN c.entities[name].attributes :
              c.entities[name].attributes[i].optionSet

\* The condition of getEntityDetails under which it calls loadEntityDetails
NeedsLoad(c, t, name, options) ==
    \/ options.refresh
    \/ isCacheExpired(c, t)
    \/ ~Cached(c, name)
    \/ /\ Truthy(options.includeAttributes)
       /\ Len(c.entities[name].attributes) = 0
    \/ /\ options.includeOptionSets
       /\ ~\E i \in DOMAIN c.entities[name].attributes :
              c.entities[name].attributes[i].optionSet

\* What listEntities maps the cache to
Summaries(c) ==
    { [ name |-> c.entities[k].name, displayName |-> c.entities[k].displayName,
        displayCollectionName |-> c.entities[k].displayCollectionName ] :
      k \in DOMAIN c.entities }

\* What a metadata operation returned (status "ok"), that it threw ("error"), or
\* that it has not returned yet ("await")
MetaResponse(op, name, status, entities, entity, attributes) ==
    [ op |-> op, name |-> name, status |-> status, entities |-> entities,
      entity |-> entity, attributes |-> attributes ]
MetaAwait(op, name) == MetaResponse(op, name, "await", {}, None, << >>)
MetaError(op, name) == MetaResponse(op, name, "error", {}, None, << >>)

\* An operation of the explorer suspended on the connector (stage "connector") or
\* on its own refreshEntityCache / loadEntityDetails that has settled (stage
\* "loaded": it resolved, "failed": it threw)
MetaCall(op, name, options, stage) ==
    [ op |-> op, name |-> name, options |-> options, stage |-> stage ]

NoOptions == [ includeAttributes |-> None, includeOptionSets |-> FALSE, refresh |-> FALSE ]

\* The return of getEntityDetails / getEntityAttributes from the cache
DetailsReturn(op, c, rawName, name) ==
    IF ~Cached(c, name) THEN MetaError(op, rawName)
    ELSE IF op = "getEntityAttributes"
    THEN MetaResponse(op, rawName, "ok", {}, None, c.entities[name].attributes)
    ELSE MetaResponse(op, rawName, "ok", {}, Some(c.entities[name]), << >>)

\* listEntities(refresh) up to its await or its return
ListEntities(refresh) ==
    /\ IF refresh \/ isCacheExpired(cache, now)
       THEN /\ metaCalls' = Append(metaCalls,
                                   MetaCall("listEntities", << >>, NoOptions, "connector"))
            /\ metaLast' = MetaAwait("listEntities", << >>)
       ELSE /\ metaLast' = MetaResponse("listEntities", << >>, "ok", Summaries(cache),
                                        None, << >>)
            /\ UNCHANGED metaCalls
    /\ UNCHANGED <<cache, now, metadataCache, schemaVersion>>

\* getEntityDetails(entityName, options) up to its await or its return;
\* getEntityAttributes(entityName, refresh) is getEntityDetails(entityName, {refresh})
\* of which it returns the attributes
GetEntityDetails(op, entityName, options) ==
    LET name == normalizeEntityName(entityName)
    IN  /\ IF NeedsLoad(cache, now, name, options)
           THEN /\ metaCalls' = Append(metaCalls,
                                       MetaCall(op, entityName, options, "connector"))
                /\ metaLast' = MetaAwait(op, entityName)
           ELSE /\ metaLast' = DetailsReturn(op, cache, entityName, name)
                /\ UNCHANGED metaCalls
        /\ UNCHANGED <<cache, now, metadataCache, schemaVersion>>

SetStage(i, stage) == [metaCalls EXCEPT ![i].stage = stage]

\* refreshEntityCache from its await on: queryEntities('EntityDefinitions') resolved
\* with the rows of the remote schema
RefreshResolves(i) ==
    /\ i \in DOMAIN metaCalls
    /\ metaCalls[i].op = "listEntities"
    /\ metaCalls[i].stage = "connector"
    /\ cache' = [ entities |-> [ k \in RemoteNames |-> BareEntry(RemoteEntity(k)) ],
                  lastUpdated |-> now ]
    /\ metaCalls' = SetStage(i, "loaded")
    /\ metaLast' = MetaAwait("listEntities", << >>)
    /\ UNCHANGED <<now, metadataCache, schemaVersion>>

\* The key getEntityMetadata files a document under: the entity and the options
\* loadEntityDetails passes (includeAttributes ?? true, includeOptionSets, and
\* includeAttributeTypes, which it passes undefined)
CacheKey(name, options) ==
    << name,
       options.includeAttributes = None \/ Truthy(options.includeAttributes),
       options.includeOptionSets,
       FALSE >>

\* What loadEntityDetails does with the document it awaited
StoreEntry(name, doc, options) ==
    [ entities |-> [ k \in DOMAIN cache.entities \cup {name} |->
                       IF k = name THEN LoadedEntry(doc, options) ELSE cache.entities[k] ],
      lastUpdated |-> now ]

\* loadEntityDetails from its await on: getEntityMetadata had no document under the
\* key, fetched one from the CRM and filed it.  The connector puts the attributes
\* in when it was asked to (includeAttributes ?? true); withAttributes = TRUE also
\* when it was not (the simulated connector)
LoadResolves(i, withAttributes) ==
    /\ i \in DOMAIN metaCalls
    /\ metaCalls[i].op \in {"getEntityDetails", "getEntityAttributes"}
    /\ metaCalls[i].stage = "connector"
    /\ LET name == normalizeEntityName(metaCalls[i].name)
           options == metaCalls[i].options
           asked == options.includeAttributes = None \/ Truthy(options.includeAttributes)
           key == CacheKey(name, options)
       IN  /\ name \in RemoteNames
           /\ key \notin DOMAIN metadataCache
           /\ Cardinality(DOMAIN metadataCache) < MaxCachedDocuments
           /\ asked => withAttributes
           /\ cache' = StoreEntry(name, EntityDocument(name, withAttributes), options)
           /\ metadataCache' =
                  [ k \in DOMAIN metadataCache \cup {key} |->
                      IF k = key THEN EntityDocument(name, withAttributes)
                      ELSE metadataCache[k] ]
    /\ metaCalls' = SetStage(i, "loaded")
    /\ metaLast' = MetaAwait(metaCalls[i].op, metaCalls[i].name)
    /\ UNCHANGED <<now, schemaVersion>>

\* loadEntityDetails from its await on: getEntityMetadata found a document under
\* the key and returned it
LoadResolvesFromCache(i) ==
    /\ i \in DOMAIN metaCalls
    /\ metaCalls[i].op \in {"getEntityDetails", "getEntityAttributes"}
    /\ metaCalls[i].stage = "connector"
    /\ LET name == normalizeEntityName(metaCalls[i].name)
           options == metaCalls[i].options
           key == CacheKey(name, options)
       IN  /\ key \in DOMAIN metadataCache
           /\ cache' = StoreEntry(name, metadataCache[key], options)
    /\ metaCalls' = SetStage(i, "loaded")
    /\ metaLast' = MetaAwait(metaCalls[i].op, metaCalls[i].name)
    /\ UNCHANGED <<now, metadataCache, schemaVersion>>

\* The connector has to ask the CRM: queryEntities always, getEntityMetadata when
\* it has no document under the key
AsksRemote(call) ==
    \/ call.op = "listEntities"
    \/ CacheKey(normalizeEntityName(call.name), call.options) \notin DOMAIN metadataCache

\* A refresh that clears the cache before it calls the connector
ConnectorThrowsAfterClear(i) ==
    /\ i \in DOMAIN metaCalls
    /\ metaCalls[i].stage = "connector"
    /\ AsksRemote(metaCalls[i])
    /\ cache' = IF metaCalls[i].op = "listEntities"
                THEN [cache EXCEPT !.entities = << >>] ELSE cache
    /\ metaCalls' = SetStage(i, "failed")
    /\ metaLast' = MetaAwait(metaCalls[i].op, metaCalls[i].name)
    /\ UNCHANGED <<now, metadataCache, schemaVersion>>

\* The connector call of a suspended operation throws; refreshEntityCache or
\* loadEntityDetails logs the error and throws it on
ConnectorThrows(i) ==
    /\ i \in DOMAIN metaCalls
    /\ metaCalls[i].stage = "connector"
    /\ AsksRemote(metaCalls[i])
    /\ metaCalls' = SetStage(i, "failed")
    /\ metaLast' = MetaAwait(metaCalls[i].op, metaCalls[i].name)
    /\ UNCHANGED <<cache, now, metadataCache, schemaVersion>>

\* The operation takes up again after its refreshEntityCache / loadEntityDetails
\* settled, and returns or throws
MetaReturns(i) ==
    /\ i \in DOMAIN metaCalls
    /\ metaCalls[i].stage \in {"loaded", "failed"}
    /\ metaLast' =
          IF metaCalls[i].stage = "failed"
          THEN MetaError(metaCalls[i].op, metaCalls[i].name)
          ELSE IF metaCalls[i].op = "listEntities"
          THEN MetaResponse("listEntities", << >>, "ok", Summaries(cache), None, << >>)
          ELSE DetailsReturn(metaCalls[i].op, cache, metaCalls[i].name,
                             normalizeEntityName(metaCalls[i].name))
    /\ metaCalls' = RemoveAt(metaCalls, i)
    /\ UNCHANGED <<cache, now, metadataCache, schemaVersion>>

\* Time passes: one millisecond, or the time the cache lives
MetaTickSteps == {1, cacheExpirationMs}
MetaTick(d) ==
    /\ (now + d - BootTime) % cacheExpirationMs <= MaxTick
    /\ (now + d - BootTime) \div cacheExpirationMs <= MaxTick
    /\ now' = now + d
    /\ metaLast' = MetaAwait("tick", << >>)
    /\ UNCHANGED <<cache, metaCalls, metadataCache, schemaVersion>>

\* The schema the CRM holds changes, between two operations of the explorer
SchemaChanges ==
    /\ schemaVersion < MaxSchemaVersion
    /\ metaCalls = << >>
    /\ schemaVersion' = schemaVersion + 1
    /\ metaLast' = MetaAwait("schema", << >>)
    /\ UNCHANGED <<cache, metaCalls, metadataCache, now>>

\* The names normalizeEntityName is applied to: the keys of the table in three
\* spellings, names it has no entry for, and names Object.prototype has
NormalizeInputs ==
    { <<"a", "c", "c", "o", "u", "n", "t">>, <<"a", "c", "c", "o", "u", "n", "t", "s">>, <<"c", "o", "n", "t", "a", "c", "t">>, <<"c", "o", "n", "t", "a", "c", "t", "s">>, <<"o", "p", "p", "o", "r", "t", "u", "n", "i", "t", "y">>,
      <<"o", "p", "p", "o", "r", "t", "u", "n", "i", "t", "i", "e", "s">>, <<"l", "e", "a", "d">>, <<"l", "e", "a", "d", "s">>, <<"c", "a", "s", "e">>, <<"c", "a", "s", "e", "s">>, <<"i", "n", "c", "i", "d", "e", "n", "t">>,
      <<"i", "n", "c", "i", "d", "e", "n", "t", "s">>, <<"a", "c", "t", "i", "v", "i", "t", "y">>, <<"a", "c", "t", "i", "v", "i", "t", "i", "e", "s">>,
      <<"A", "c", "c", "o", "u", "n", "t">>, <<"A", "c", "c", "o", "u", "n", "t", "s">>, <<"C", "o", "n", "t", "a", "c", "t">>, <<"C", "o", "n", "t", "a", "c", "t", "s">>, <<"O", "p", "p", "o", "r", "t", "u", "n", "i", "t", "y">>,
      <<"O", "p", "p", "o", "r", "t", "u", "n", "i", "t", "i", "e", "s">>, <<"L", "e", "a", "d">>, <<"L", "e", "a", "d", "s">>, <<"C", "a", "s", "e">>, <<"C", "a", "s", "e", "s">>, <<"I", "n", "c", "i", "d", "e", "n", "t">>,
      <<"I", "n", "c", "i", "d", "e", "n", "t", "s">>, <<"A", "c", "t", "i", "v", "i", "t", "y">>, <<"A", "c", "t", "i", "v", "i", "t", "i", "e", "s">>,
      <<"A", "C", "C", "O", "U", "N", "T">>, <<"A", "C", "C", "O", "U", "N", "T", "S">>, <<"C", "O", "N", "T", "A", "C", "T">>, <<"C", "O", "N", "T", "A", "C", "T", "S">>, <<"O", "P", "P", "O", "R", "T", "U", "N", "I", "T", "Y">>,
      <<"O", "P", "P", "O", "R", "T", "U", "N", "I", "T", "I", "E", "S">>, <<"L", "E", "A", "D">>, <<"L", "E", "A", "D", "S">>, <<"C", "A", "S", "E">>, <<"C", "A", "S", "E", "S">>, <<"I", "N", "C", "I", "D", "E", "N", "T">>,
      <<"I", "N", "C", "I", "D", "E", "N", "T", "S">>, <<"A", "C", "T", "I", "V", "I", "T", "Y">>, <<"A", "C", "T", "I", "V", "I", "T", "I", "E", "S">>,
      <<"i", "n", "v", "o", "i", "c", "e">>, <<"I", "n", "v", "o", "i", "c", "e", "s">>, <<"p", "r", "o", "d", "u", "c", "t">>, <<"P", "r", "o", "d", "u", "c", "t", "s">>, <<"t", "a", "s", "k">>, <<"T", "a", "s", "k", "s">>,
      <<"e", "m", "a", "i", "l">>, <<"E", "m", "a", "i", "l", "s">>, <<"q", "u", "o", "t", "e">>, <<"Q", "u", "o", "t", "e", "s">>, <<"t", "e", "a", "m">>, <<"T", "e", "a", "m", "s">>,
      <<"s", "y", "s", "t", "e", "m", "u", "s", "e", "r">>, <<"S", "y", "s", "t", "e", "m", "U", "s", "e", "r", "s">>, <<"x", "y", "z">>, <<>>, <<"s">>, <<"C", "a", "s", "e", "s", "s">>,
      <<"I", "N", "V", "O", "I", "C", "E">>, <<"I", "n", "v", "o", "i", "c", "e">>, <<"P", "R", "O", "D", "U", "C", "T">>, <<"P", "r", "o", "d", "u", "c", "t">>, <<"T", "A", "S", "K">>, <<"T", "a", "s", "k">>,
      <<"E", "M", "A", "I", "L">>, <<"E", "m", "a", "i", "l">>, <<"Q", "U", "O", "T", "E">>, <<"Q", "u", "o", "t", "e">>, <<"T", "E", "A", "M">>, <<"T", "e", "a", "m">>,
      <<"c", "o", "n", "t", "a", "s">>, <<"C", "o", "n", "t", "a", "s">>, <<"c", "a", "s", "o", "s">>, <<"C", "a", "s", "o", "s">>, <<"c", "o", "n", "t", "a", "t", "o", "s">>, <<"C", "o", "n", "t", "a", "t", "o", "s">>,
      <<"c", "l", "i", "e", "n", "t", "e", "s">>, <<"C", "l", "i", "e", "n", "t", "e", "s">>, <<"n", "e", "w", "_", "p", "r", "o", "j", "e", "c", "t">>, <<"N", "e", "w", "_", "P", "r", "o", "j", "e", "c", "t", "s">>, <<"c", "A", "s", "E">>,
      <<"a", "C", "C", "o", "u", "n", "t", "s">>, <<"O", "r", "d", "e", "r">>, <<"o", "r", "d", "e", "r", "s">>, <<"C", "a", "m", "p", "a", "i", "g", "n">>, <<"c", "a", "m", "p", "a", "i", "g", "n", "s">>,
      <<"c", "o", "n", "s", "t", "r", "u", "c", "t", "o", "r">>, <<"C", "o", "n", "s", "t", "r", "u", "c", "t", "o", "r">>, <<"_", "_", "p", "r", "o", "t", "o", "_", "_">> }

\* A call of a function of the program, and no call yet
Call(fn, arg) == [ fn |-> fn, arg |-> arg ]
NoCall == Call("none", << >>)

\* normalizeEntityName(entityName)
Normalize(entityName) ==
    /\ applied' = Call("normalizeEntityName", entityName)
    /\ returned' = normalizeEntityName(entityName)
    /\ UNCHANGED commandCalls

\* normalizeEntityName applied to what it returned
NormalizeAgain ==
    /\ applied.fn = "normalizeEntityName"
    /\ applied.arg # returned
    /\ applied' = Call("normalizeEntityName", returned)
    /\ returned' = normalizeEntityName(returned)
    /\ UNCHANGED commandCalls

CallInit ==
    /\ applied = NoCall
    /\ returned = << >>
    /\ commandCalls = << >>

MetaInit ==
    /\ cache = [ entities |-> << >>, lastUpdated |-> 0 ]
    /\ metaCalls = << >>
    /\ metaLast = MetaAwait("init", << >>)
    /\ metadataCache = << >>
    /\ schemaVersion = 0

---------------------------------------------------------------------------
(* ShortCommandService: commands of the form 'entity:action [parameters]'. *)

\* String.prototype.indexOf(c) of a character, from 1; 0 when it is not there
RECURSIVE IndexFrom(_, _, _)
IndexFrom(s, c, i) ==
    IF i > Len(s) THEN 0 ELSE IF s[i] = c THEN i ELSE IndexFrom(s, c, i + 1)
indexOf(s, c) == IndexFrom(s, c, 1)
includes(s, c) == indexOf(s, c) # 0

\* String.prototype.split(c) on a character
RECURSIVE splitChar(_, _)
splitChar(s, c) ==
    IF ~includes(s, c) THEN << s >>
    ELSE << SubSeq(s, 1, indexOf(s, c) - 1) >>
         \o splitChar(SubSeq(s, indexOf(s, c) + 1, Len(s)), c)

\* The tokens of a text without leading white space: split(/\s+/) after trim()
RECURSIVE SpaceFrom(_, _)
SpaceFrom(s, i) ==
    IF i > Len(s) THEN 0 ELSE IF IsSpace(s[i]) THEN i ELSE SpaceFrom(s, i + 1)
RECURSIVE splitSpaces(_)
splitSpaces(s) ==
    IF SpaceFrom(s, 1) = 0 THEN << s >>
    ELSE << SubSeq(s, 1, SpaceFrom(s, 1) - 1) >>
         \o splitSpaces(trimStart(SubSeq(s, SpaceFrom(s, 1), Len(s))))

\* String.prototype.replace(/\*/g, '')
removeStars(s) == SelectSeq(s, LAMBDA c : c # "*")

\* Number(text) for the numerals the commands hold: an empty text is 0, a run of
\* decimal digits after an optional sign is its value, any other text is NaN (None)
IsNumeral(s) == Len(s) > 0 /\ \A i \in 1..Len(s) : IsDigit(s[i])
StringToNumber(s) ==
    IF trim(s) = << >> THEN Some(0)
    ELSE IF IsNumeral(trim(s)) THEN Some(DecimalValue(trim(s)))
    ELSE IF Head(trim(s)) = "-" /\ IsNumeral(Tail(trim(s)))
    THEN Some(0 - DecimalValue(Tail(trim(s))))
    ELSE IF Head(trim(s)) = "+" /\ IsNumeral(Tail(trim(s)))
    THEN Some(DecimalValue(Tail(trim(s))))
    ELSE None

\* String(n) of an integer, as a template literal writes it
RECURSIVE DigitsOf(_)
DigitsOf(n) ==
    IF n < 10 THEN << Digits[n + 1] >>
    ELSE DigitsOf(n \div 10) \o << Digits[(n % 10) + 1] >>
NumberToString(n) == IF n < 0 THEN << "-" >> \o DigitsOf(0 - n) ELSE DigitsOf(n)

\* The values of a parameter: a string, a number or a boolean (typeof value)
StringValue(s) == [ type |-> "string", str |-> s, num |-> 0, bool |-> FALSE ]
NumberValue(n) == [ type |-> "number", str |-> << >>, num |-> n, bool |-> FALSE ]
BooleanValue(b) == [ type |-> "boolean", str |-> << >>, num |-> 0, bool |-> b ]

\* `${value}`
ValueToString(value) ==
    IF value.type = "string" THEN value.str
    ELSE IF value.type = "number" THEN NumberToString(value.num)
    ELSE IF value.bool THEN <<"t", "r", "u", "e">> ELSE <<"f", "a", "l", "s", "e">>

\* !value
FalsyValue(value) ==
    \/ value.type = "string" /\ value.str = << >>
    \/ value.type = "number" /\ value.num = 0
    \/ value.type = "boolean" /\ ~value.bool

\* parseCommand: the conversion of a value to a boolean or a number
CoerceValue(value) ==
    IF value = <<"t", "r", "u", "e">> THEN BooleanValue(TRUE)
    ELSE IF value = <<"f", "a", "l", "s", "e">> THEN BooleanValue(FALSE)
    ELSE IF IsSome(StringToNumber(value)) /\ trim(value) # << >>
    THEN NumberValue(Get(StringToNumber(value)))
    ELSE StringValue(value)

\* params: the own properties of the object in the order they were added, each a
\* pair of key and value.  params[key]: undefined (None) when it has none
ParamIndex(params, key) ==
    IF \E i \in DOMAIN params : params[i][1] = key
    THEN CHOOSE i \in DOMAIN params : params[i][1] = key
    ELSE 0
GetParam(params, key) ==
    IF ParamIndex(params, key) = 0 THEN None ELSE Some(params[ParamIndex(params, key)][2])
HasParam(params, key) == ParamIndex(params, key) # 0

\* params[key] = value: a new property goes last and a property that is there
\* keeps its place; the key __proto__ is the inherited setter, which ignores a
\* value that is no object, and adds nothing
SetParam(params, key, value) ==
    IF key = <<"_", "_", "p", "r", "o", "t", "o", "_", "_">> THEN params
    ELSE IF HasParam(params, key)
    THEN [params EXCEPT ![ParamIndex(params, key)] = << key, value >>]
    ELSE Append(params, << key, value >>)

\* The entity names of ShortCommandService.normalizeEntityName
entityMap ==
    << << <<"a", "c", "c", "o", "u", "n", "t">>, <<"a", "c", "c", "o", "u", "n", "t", "s">> >>, << <<"c", "o", "n", "t", "a">>, <<"a", "c", "c", "o", "u", "n", "t", "s">> >>,
       << <<"c", "o", "n", "t", "a", "s">>, <<"a", "c", "c", "o", "u", "n", "t", "s">> >>, << <<"c", "o", "n", "t", "a", "c", "t">>, <<"c", "o", "n", "t", "a", "c", "t", "s">> >>,
       << <<"c", "o", "n", "t", "a", "t", "o">>, <<"c", "o", "n", "t", "a", "c", "t", "s">> >>, << <<"c", "o", "n", "t", "a", "t", "o", "s">>, <<"c", "o", "n", "t", "a", "c", "t", "s">> >>,
       << <<"c", "a", "s", "e">>, <<"i", "n", "c", "i", "d", "e", "n", "t", "s">> >>, << <<"c", "a", "s", "o">>, <<"i", "n", "c", "i", "d", "e", "n", "t", "s">> >>,
       << <<"c", "a", "s", "o", "s">>, <<"i", "n", "c", "i", "d", "e", "n", "t", "s">> >>, << <<"i", "n", "c", "i", "d", "e", "n", "t">>, <<"i", "n", "c", "i", "d", "e", "n", "t", "s">> >>,
       << <<"o", "p", "p", "o", "r", "t", "u", "n", "i", "t", "y">>, <<"o", "p", "p", "o", "r", "t", "u", "n", "i", "t", "i", "e", "s">> >>, << <<"o", "p", "o", "r", "t", "u", "n", "i", "d", "a", "d", "e">>, <<"o", "p", "p", "o", "r", "t", "u", "n", "i", "t", "i", "e", "s">> >>,
       << <<"o", "p", "o", "r", "t", "u", "n", "i", "d", "a", "d", "e", "s">>, <<"o", "p", "p", "o", "r", "t", "u", "n", "i", "t", "i", "e", "s">> >>, << <<"l", "e", "a", "d">>, <<"l", "e", "a", "d", "s">> >>,
       << <<"t", "a", "s", "k">>, <<"t", "a", "s", "k", "s">> >>, << <<"t", "a", "r", "e", "f", "a">>, <<"t", "a", "s", "k", "s">> >>, << <<"t", "a", "r", "e", "f", "a", "s">>, <<"t", "a", "s", "k", "s">> >>,
       << <<"e", "m", "a", "i", "l">>, <<"e", "m", "a", "i", "l", "s">> >>, << <<"a", "p", "p", "o", "i", "n", "t", "m", "e", "n", "t">>, <<"a", "p", "p", "o", "i", "n", "t", "m", "e", "n", "t", "s">> >>,
       << <<"r", "e", "u", "n", "i", "a", "o">>, <<"a", "p", "p", "o", "i", "n", "t", "m", "e", "n", "t", "s">> >>, << <<"r", "e", "u", "n", "i", "a_tilde", "o">>, <<"a", "p", "p", "o", "i", "n", "t", "m", "e", "n", "t", "s">> >>,
       << <<"p", "h", "o", "n", "e", "c", "a", "l", "l">>, <<"p", "h", "o", "n", "e", "c", "a", "l", "l", "s">> >>, << <<"c", "h", "a", "m", "a", "d", "a">>, <<"p", "h", "o", "n", "e", "c", "a", "l", "l", "s">> >> >>

\* ShortCommandService.normalizeEntityName: entityMap[entity.toLowerCase()] || entity
normalizeCommandEntity(entity) ==
    IF IsSome(Lookup(entityMap, toLowerCase(entity)))
    THEN Get(Lookup(entityMap, toLowerCase(entity)))
    ELSE entity

\* parseCommand: the loop over parts[1..], in the source's order
RECURSIVE KeyValues(_, _, _)
KeyValues(parts, i, params) ==
    IF i > Len(parts) THEN params
    ELSE IF Len(splitChar(parts[i], "=")) = 2
    THEN KeyValues(parts, i + 1,
                   SetParam(params, splitChar(parts[i], "=")[1],
                            CoerceValue(splitChar(parts[i], "=")[2])))
    ELSE KeyValues(parts, i + 1, params)

\* parseCommand: the first parameter is an id when it holds no '='
PositionalId(parts) ==
    IF ~includes(parts[2], "=") THEN << << <<"i", "d">>, StringValue(parts[2]) >> >> ELSE << >>

ParsedCommand(entity, action, params) ==
    [ entity |-> entity, action |-> action, params |-> params ]
NullCommand == ParsedCommand(None, None, << >>)

\* A parse that takes the first two of the pieces between colons
ParsePartsFirstTwo(parts) ==
    IF Len(splitChar(parts[1], ":")) < 2 THEN NullCommand
    ELSE ParsedCommand(Some(normalizeCommandEntity(splitChar(parts[1], ":")[1])),
                       Some(splitChar(parts[1], ":")[2]),
                       IF Len(parts) > 1 THEN KeyValues(parts, 2, PositionalId(parts))
                       ELSE << >>)

\* parseCommand from the split of the command on
ParseParts(parts) ==
    IF Len(splitChar(parts[1], ":")) # 2 THEN NullCommand
    ELSE ParsedCommand(Some(normalizeCommandEntity(splitChar(parts[1], ":")[1])),
                       Some(splitChar(parts[1], ":")[2]),
                       IF Len(parts) > 1 THEN KeyValues(parts, 2, PositionalId(parts))
                       ELSE << >>)

\* ShortCommandService.parseCommand
parseCommand(command) ==
    IF trim(command) = << >> THEN NullCommand
    ELSE ParseParts(splitSpaces(trim(command)))

---------------------------------------------------------------------------
(* ShortCommandService: the actions of a command.                          *)

ListReservedKeys ==
    { <<"t", "o", "p">>, <<"l", "i", "m", "i", "t">>, <<"o", "r", "d", "e", "r", "B", "y">>, <<"o", "r", "d", "e", "r">>, <<"s", "e", "l", "e", "c", "t">>, <<"f", "i", "e", "l", "d", "s">>, <<"e", "x", "p", "a", "n", "d">> }
CountReservedKeys == { <<"s", "e", "l", "e", "c", "t">>, <<"f", "i", "e", "l", "d", "s">>, <<"e", "x", "p", "a", "n", "d">> }

\* The loop that copies the parameters that are not special to filterParams
FilterParams(params, reserved) == SelectSeq(params, LAMBDA p : p[1] \notin reserved)

\* `${entity.endsWith('s') ? entity.slice(0, -1) : entity}id`
IdField(entity) ==
    (IF endsWith(entity, <<"s">>) THEN SubSeq(entity, 1, Len(entity) - 1) ELSE entity)
    \o <<"i", "d">>

Quoted(s) == <<"'">> \o s \o <<"'">>

\* The clauses with startswith and endswith taken one for the other
FilterPartSwapped(entity, key, value) ==
    IF key = <<"i", "d">>
    THEN << IdField(entity) \o <<" ", "e", "q", " ">> \o ValueToString(value) >>
    ELSE IF value.type = "string"
    THEN IF includes(value.str, "*")
         THEN IF startsWith(value.str, <<"*">>) /\ endsWith(value.str, <<"*">>)
              THEN << <<"c", "o", "n", "t", "a", "i", "n", "s", "(">> \o key \o <<",", " ">> \o Quoted(removeStars(value.str)) \o <<")">> >>
              ELSE IF startsWith(value.str, <<"*">>)
              THEN << <<"s", "t", "a", "r", "t", "s", "w", "i", "t", "h", "(">> \o key \o <<",", " ">> \o Quoted(removeStars(value.str)) \o <<")">> >>
              ELSE IF endsWith(value.str, <<"*">>)
              THEN << <<"e", "n", "d", "s", "w", "i", "t", "h", "(">> \o key \o <<",", " ">> \o Quoted(removeStars(value.str)) \o <<")">> >>
              ELSE << >>
         ELSE << key \o <<" ", "e", "q", " ">> \o Quoted(value.str) >>
    ELSE << key \o <<" ", "e", "q", " ">> \o ValueToString(value) >>

\* What the loop over filterParams pushes to filterParts for one parameter: one
\* clause, or nothing
FilterPart(entity, key, value) ==
    IF key = <<"i", "d">>
    THEN << IdField(entity) \o <<" ", "e", "q", " ">> \o ValueToString(value) >>
    ELSE IF value.type = "string"
    THEN IF includes(value.str, "*")
         THEN IF startsWith(value.str, <<"*">>) /\ endsWith(value.str, <<"*">>)
              THEN << <<"c", "o", "n", "t", "a", "i", "n", "s", "(">> \o key \o <<",", " ">> \o Quoted(removeStars(value.str)) \o <<")">> >>
              ELSE IF startsWith(value.str, <<"*">>)
              THEN << <<"e", "n", "d", "s", "w", "i", "t", "h", "(">> \o key \o <<",", " ">> \o Quoted(removeStars(value.str)) \o <<")">> >>
              ELSE IF endsWith(value.str, <<"*">>)
              THEN << <<"s", "t", "a", "r", "t", "s", "w", "i", "t", "h", "(">> \o key \o <<",", " ">> \o Quoted(removeStars(value.str)) \o <<")">> >>
              ELSE << >>
         ELSE << key \o <<" ", "e", "q", " ">> \o Quoted(value.str) >>
    ELSE << key \o <<" ", "e", "q", " ">> \o ValueToString(value) >>

RECURSIVE FilterParts(_, _)
FilterParts(entity, filterParams) ==
    IF Len(filterParams) = 0 THEN << >>
    ELSE FilterPart(entity, Head(filterParams)[1], Head(filterParams)[2])
         \o FilterParts(entity, Tail(filterParams))

\* executeListCommand: the filter it builds
ListFilter(entity, params) ==
    join(FilterParts(entity, FilterParams(params, ListReservedKeys)), <<" ", "a", "n", "d", " ">>)

\* executeCountCommand: the filter it builds
CountFilter(entity, params) ==
    join(FilterParts(entity, FilterParams(params, CountReservedKeys)), <<" ", "a", "n", "d", " ">>)

\* a || b || ... over parameters: the first that is truthy, else the last
TruthyParam(params, key) ==
    HasParam(params, key) /\ ~FalsyValue(Get(GetParam(params, key)))
FirstTruthy(params, keys, default) ==
    IF \E i \in DOMAIN keys : TruthyParam(params, keys[i])
    THEN Get(GetParam(params, keys[CHOOSE i \in DOMAIN keys :
                                       /\ TruthyParam(params, keys[i])
                                       /\ \A j \in 1..(i - 1) :
                                            ~TruthyParam(params, keys[j])]))
    ELSE default

\* text.split(',').map(f => f.trim())
TrimAll(parts) == [ i \in DOMAIN parts |-> trim(parts[i]) ]
FieldList(value) == TrimAll(splitChar(value.str, ","))

\* params.select || params.fields ? (params.select || params.fields).split(',') ... :
\* undefined.  A truthy value that is no string has no split: TypeError
SelectThrows(params) ==
    \E i \in 1..2 : /\ TruthyParam(params, << <<"s", "e", "l", "e", "c", "t">>, <<"f", "i", "e", "l", "d", "s">> >>[i])
                    /\ FirstTruthy(params, << <<"s", "e", "l", "e", "c", "t">>, <<"f", "i", "e", "l", "d", "s">> >>,
                                   StringValue(<< >>)).type # "string"
SelectOf(params) ==
    IF \E i \in 1..2 : TruthyParam(params, << <<"s", "e", "l", "e", "c", "t">>, <<"f", "i", "e", "l", "d", "s">> >>[i])
    THEN Some(FieldList(FirstTruthy(params, << <<"s", "e", "l", "e", "c", "t">>, <<"f", "i", "e", "l", "d", "s">> >>, StringValue(<< >>))))
    ELSE None
ExpandThrows(params) ==
    TruthyParam(params, <<"e", "x", "p", "a", "n", "d">>) /\ Get(GetParam(params, <<"e", "x", "p", "a", "n", "d">>)).type # "string"
ExpandOf(params) ==
    IF TruthyParam(params, <<"e", "x", "p", "a", "n", "d">>)
    THEN Some(FieldList(Get(GetParam(params, <<"e", "x", "p", "a", "n", "d">>)))) ELSE None

DefaultTop == 50
CountTopCommand == 1000
GetTopCommand == 1

\* A call of the connector that an action of a command awaits
ConnectorCall(action, op, command, entity, filter, select, expand, top, orderBy, data) ==
    [ action |-> action, op |-> op, command |-> command, entity |-> entity,
      filter |-> filter, select |-> select, expand |-> expand, top |-> top,
      orderBy |-> orderBy, data |-> data ]
NoConnectorCall ==
    ConnectorCall("none", "none", << >>, << >>, << >>, None, None, None, None, << >>)

\* What processCommand returns: success, the message (by name) and, when the
\* message reports an error that was thrown, what was thrown
CommandResponse(success, message, cause, entity, filter, count, fields) ==
    [ success |-> success, message |-> message, cause |-> cause, entity |-> entity,
      filter |-> filter, count |-> count, fields |-> fields ]
NoResponse == CommandResponse(FALSE, "none", "none", << >>, << >>, 0, << >>)

\* What an action does up to its first await: it returns, it throws, or it calls
\* the connector
Effect(kind, response, cause, connectorCall) ==
    [ kind |-> kind, response |-> response, cause |-> cause, call |-> connectorCall ]
Returns(response) == Effect("return", response, "none", NoConnectorCall)
Throws(cause) == Effect("throw", NoResponse, cause, NoConnectorCall)
Calls(connectorCall) == Effect("call", NoResponse, "none", connectorCall)

\* filter || undefined
OrUndefined(text) == IF text = << >> THEN None ELSE Some(text)

\* executeListCommand up to the await
executeListCommand(command, entity, params) ==
    IF ~IsString(entity) /\ HasParam(FilterParams(params, ListReservedKeys), <<"i", "d">>)
    THEN Throws("TypeError")
    ELSE IF SelectThrows(params) \/ ExpandThrows(params) THEN Throws("TypeError")
    ELSE Calls(ConnectorCall("list", "queryEntities", command, entity,
                             OrUndefined(ListFilter(entity, params)),
                             SelectOf(params), ExpandOf(params),
                             Some(FirstTruthy(params, << <<"t", "o", "p">>, <<"l", "i", "m", "i", "t">> >>,
                                              NumberValue(DefaultTop))),
                             Some(FirstTruthy(params, << <<"o", "r", "d", "e", "r", "B", "y">>, <<"o", "r", "d", "e", "r">> >>,
                                              StringValue(DefaultOrderBy))),
                             << >>))

\* executeGetCommand up to the await
executeGetCommand(command, entity, params) ==
    IF ~TruthyParam(params, <<"i", "d">>) THEN Throws("get_needs_id")
    ELSE IF ~IsString(entity) THEN Throws("TypeError")
    ELSE IF SelectThrows(params) \/ ExpandThrows(params) THEN Throws("TypeError")
    ELSE Calls(ConnectorCall("get", "queryEntities", command, entity,
                             Some(IdField(entity) \o <<" ", "e", "q", " ">>
                                  \o ValueToString(Get(GetParam(params, <<"i", "d">>)))),
                             SelectOf(params), ExpandOf(params),
                             Some(NumberValue(GetTopCommand)), None, << >>))

\* const { id, ...data } = params
WithoutId(params) == SelectSeq(params, LAMBDA p : p[1] # <<"i", "d">>)

\* executeCreateCommand up to the await
executeCreateCommand(command, entity, params) ==
    IF Len(WithoutId(params)) = 0 THEN Throws("create_needs_field")
    ELSE Calls(ConnectorCall("create", "createEntity", command, entity, None, None, None,
                             None, None, WithoutId(params)))

\* executeUpdateCommand up to the await
executeUpdateCommand(command, entity, params) ==
    IF ~TruthyParam(params, <<"i", "d">>) THEN Throws("update_needs_id")
    ELSE IF Len(WithoutId(params)) = 0 THEN Throws("update_needs_field")
    ELSE Calls(ConnectorCall("update", "updateEntity", command, entity, None, None, None,
                             None, None, params))

\* executeDeleteCommand without the test of params.id
executeDeleteCommandUnchecked(command, entity, params) ==
    Calls(ConnectorCall("delete", "deleteEntity", command, entity, None, None, None,
                        None, None, params))

\* executeDeleteCommand up to the await
executeDeleteCommand(command, entity, params) ==
    IF ~TruthyParam(params, <<"i", "d">>) THEN Throws("delete_needs_id")
    ELSE Calls(ConnectorCall("delete", "deleteEntity", command, entity, None, None, None,
                             None, None, params))

\* executeCountCommand up to the await
executeCountCommand(command, entity, params) ==
    IF ~IsString(entity) /\ HasParam(FilterParams(params, CountReservedKeys), <<"i", "d">>)
    THEN Throws("TypeError")
    ELSE Calls(ConnectorCall("count", "queryEntities", command, entity,
                             OrUndefined(CountFilter(entity, params)),
                             Some(<< <<"c", "r", "e", "a", "t", "e", "d", "o", "n">> >>), None,
                             Some(NumberValue(CountTopCommand)), None, << >>))

\* executeFieldsCommand up to the await
executeFieldsCommand(command, entity) ==
    Calls(ConnectorCall("fields", "getEntityMetadata", command, entity, None, None, None,
                        None, None, << >>))

\* processCommand: switch (action.toLowerCase())
ActionOf(word) ==
    IF word \in { <<"l", "i", "s", "t">>, <<"l", "s">> } THEN "list"
    ELSE IF word \in { <<"g", "e", "t">>, <<"s", "h", "o", "w">>, <<"v", "i", "e", "w">> } THEN "get"
    ELSE IF word \in { <<"c", "r", "e", "a", "t", "e">>, <<"n", "e", "w">>, <<"a", "d", "d">> } THEN "create"
    ELSE IF word \in { <<"u", "p", "d", "a", "t", "e">>, <<"e", "d", "i", "t">>, <<"m", "o", "d">> } THEN "update"
    ELSE IF word \in { <<"d", "e", "l", "e", "t", "e">>, <<"d", "e", "l">>, <<"r", "m">> } THEN "delete"
    ELSE IF word = <<"c", "o", "u", "n", "t">> THEN "count"
    ELSE IF word \in { <<"f", "i", "e", "l", "d", "s">>, <<"s", "c", "h", "e", "m", "a">> } THEN "fields"
    ELSE "default"

Dispatch(command, action, entity, params) ==
    IF action = "list" THEN executeListCommand(command, entity, params)
    ELSE IF action = "get" THEN executeGetCommand(command, entity, params)
    ELSE IF action = "create" THEN executeCreateCommand(command, entity, params)
    ELSE IF action = "update" THEN executeUpdateCommand(command, entity, params)
    ELSE IF action = "delete" THEN executeDeleteCommand(command, entity, params)
    ELSE IF action = "count" THEN executeCountCommand(command, entity, params)
    ELSE IF action = "fields" THEN executeFieldsCommand(command, entity)
    ELSE Returns(CommandResponse(FALSE, "unknown_action", "none", << >>, << >>, 0, << >>))

\* !entity || !action
Missing(o) == ~IsSome(o) \/ Get(o) = << >>

\* processCommand from the parsed command on, up to its first await
ProcessParsed(command, parsed) ==
    IF Missing(parsed.entity) \/ Missing(parsed.action)
    THEN Returns(CommandResponse(FALSE, "invalid_format", "none", << >>, << >>, 0, << >>))
    ELSE Dispatch(command, ActionOf(toLowerCase(Get(parsed.action))),
                  Get(parsed.entity), parsed.params)

\* processCommand: the catch turns what was thrown into a response
Caught(cause) == CommandResponse(FALSE, "error_processing", cause, << >>, << >>, 0, << >>)

\* String.prototype.toUpperCase of one character
ToUpperChar(c) ==
    IF c \in Range(LowerCaseLetters)
    THEN UpperCase[CHOOSE i \in DOMAIN LowerCaseLetters : LowerCaseLetters[i] = c]
    ELSE c
\* name.charAt(0).toUpperCase() + name.slice(1)
Capitalized(name) ==
    IF Len(name) = 0 THEN name ELSE << ToUpperChar(Head(name)) >> \o Tail(name)

\* The document getEntityMetadata answers a fields action with: the generic
\* structure of simulateEntityMetadata, which holds three attributes
SchemaAttribute(name, type, label, maxLength) ==
    [ LogicalName |-> name, AttributeType |-> type, Label |-> label,
      MaxLength |-> maxLength ]
SchemaDocument(entity) ==
    [ LogicalName |-> entity, SchemaName |-> Capitalized(entity),
      Label |-> Some(Capitalized(entity)),
      Attributes |->
          << SchemaAttribute(entity \o <<"i", "d">>, <<"U", "n", "i", "q", "u", "e", "i", "d", "e", "n", "t", "i", "f", "i", "e", "r">>, Some(<<"I", "D">>), None),
             SchemaAttribute(<<"n", "a", "m", "e">>, <<"S", "t", "r", "i", "n", "g">>, Some(<<"N", "o", "m", "e">>), Some(100)),
             SchemaAttribute(<<"c", "r", "e", "a", "t", "e", "d", "o", "n">>, <<"D", "a", "t", "e", "T", "i", "m", "e">>, Some(<<"D", "a", "t", "a", " ", "d", "e", " ", "C", "r", "i", "a", "c_cedil", "a_tilde", "o">>), None) >> ]

\* The properties of the document by name, as the connector spells them
DocumentProperties(doc) ==
    << << <<"L", "o", "g", "i", "c", "a", "l", "N", "a", "m", "e">>, doc.LogicalName >>, << <<"S", "c", "h", "e", "m", "a", "N", "a", "m", "e">>, doc.SchemaName >>,
       << <<"D", "i", "s", "p", "l", "a", "y", "N", "a", "m", "e">>, doc.Label >>, << <<"A", "t", "t", "r", "i", "b", "u", "t", "e", "s">>, doc.Attributes >> >>

\* executeFieldsCommand: the descriptor of one attribute
FieldDescriptor(attr) ==
    [ name |-> attr.LogicalName, displayName |-> FirstOf(attr.Label, attr.LogicalName),
      type |-> attr.AttributeType, description |-> << >>, required |-> FALSE,
      maxLength |-> attr.MaxLength, precision |-> None, optionSet |-> None ]

\* executeFieldsCommand after the await: metadata.attributes.map(...)
FieldsResponse(entity, doc) ==
    IF ~IsSome(Lookup(DocumentProperties(doc), <<"a", "t", "t", "r", "i", "b", "u", "t", "e", "s">>))
    THEN Caught("TypeError")
    ELSE CommandResponse(TRUE, "fields", "none", entity, << >>, 0,
                         [ i \in DOMAIN Get(Lookup(DocumentProperties(doc), <<"a", "t", "t", "r", "i", "b", "u", "t", "e", "s">>)) |->
                             FieldDescriptor(Get(Lookup(DocumentProperties(doc),
                                                        <<"a", "t", "t", "r", "i", "b", "u", "t", "e", "s">>))[i]) ])

\* The key getEntityMetadata files the document of a fields action under:
\* includeAttributes, includeOptionSets and includeAttributeTypes are true
FieldsCacheKey(entity) == << entity, TRUE, TRUE, TRUE >>

\* What an action returns when queryEntities resolved with n records
QueryResponse(connectorCall, n) ==
    IF connectorCall.action = "get"
    THEN IF n = 0
         THEN CommandResponse(FALSE, "not_found", "none", connectorCall.entity,
                              FirstOf(connectorCall.filter, << >>), 0, << >>)
         ELSE CommandResponse(TRUE, "found", "none", connectorCall.entity,
                              FirstOf(connectorCall.filter, << >>), 0, << >>)
    ELSE CommandResponse(TRUE, IF connectorCall.action = "count" THEN "counted" ELSE "listed",
                         "none", connectorCall.entity,
                         FirstOf(connectorCall.filter, << >>), n, << >>)

\* parseCommand(command)
ParseCommand(command) ==
    /\ applied' = Call("parseCommand", command)
    /\ returned' = parseCommand(command)
    /\ UNCHANGED <<commandCalls, metaVars>>

\* processCommand(command) up to its first await, or to its return
ApplyEffect(command, effect) ==
    /\ applied' = Call("processCommand", command)
    /\ returned' = IF effect.kind = "return" THEN effect.response
                   ELSE IF effect.kind = "throw" THEN Caught(effect.cause)
                   ELSE NoResponse
    /\ commandCalls' = IF effect.kind = "call" THEN Append(commandCalls, effect.call)
                       ELSE commandCalls
ProcessCommand(command) ==
    /\ ApplyEffect(command, ProcessParsed(command, parseCommand(command)))
    /\ UNCHANGED metaVars

\* The awaited call settles and processCommand returns
Settle(i, response) ==
    /\ applied' = Call("processCommand", commandCalls[i].command)
    /\ returned' = response
    /\ commandCalls' = RemoveAt(commandCalls, i)

\* queryEntities resolves with n records
CommandQueryResolves(i, n) ==
    /\ i \in DOMAIN commandCalls
    /\ commandCalls[i].op = "queryEntities"
    /\ Settle(i, QueryResponse(commandCalls[i], n))
    /\ UNCHANGED metaVars

\* createEntity, updateEntity or deleteEntity resolves
CommandWriteResolves(i) ==
    /\ i \in DOMAIN commandCalls
    /\ commandCalls[i].op \in {"createEntity", "updateEntity", "deleteEntity"}
    /\ Settle(i, CommandResponse(TRUE, commandCalls[i].action, "none",
                                 commandCalls[i].entity, << >>, 0, << >>))
    /\ UNCHANGED metaVars

\* getEntityMetadata resolves with a document.  Without credentials it is the
\* simulated one and nothing is filed; with them the connector answers from
\* metadataCache, or fetches the document and files it
CommandMetadataResolves(i, simulated) ==
    /\ i \in DOMAIN commandCalls
    /\ commandCalls[i].op = "getEntityMetadata"
    /\ Settle(i, FieldsResponse(
                    commandCalls[i].entity,
                    IF ~simulated /\ FieldsCacheKey(commandCalls[i].entity)
                                        \in DOMAIN metadataCache
                    THEN metadataCache[FieldsCacheKey(commandCalls[i].entity)]
                    ELSE SchemaDocument(commandCalls[i].entity)))
    /\ \/ simulated
       \/ FieldsCacheKey(commandCalls[i].entity) \in DOMAIN metadataCache
       \/ Cardinality(DOMAIN metadataCache) < MaxCachedDocuments
    /\ metadataCache' =
          IF simulated \/ FieldsCacheKey(commandCalls[i].entity) \in DOMAIN metadataCache
          THEN metadataCache
          ELSE [ k \in DOMAIN metadataCache \cup {FieldsCacheKey(commandCalls[i].entity)} |->
                   IF k = FieldsCacheKey(commandCalls[i].entity)
                   THEN SchemaDocument(commandCalls[i].entity)
                   ELSE metadataCache[k] ]
    /\ UNCHANGED <<cache, metaCalls, metaLast, schemaVersion>>

\* The awaited call of the connector throws: the action logs the error and throws
\* it on, and processCommand reports it
CommandRejects(i) ==
    /\ i \in DOMAIN commandCalls
    /\ Settle(i, Caught("connector"))
    /\ UNCHANGED metaVars

\* The commands that are sent
CommandInputs ==
    { <<>>, <<" ", " ", " ">>, <<"b", "a", "d", "-", "c", "o", "m", "m", "a", "n", "d">>, <<"a", ":", "b", ":", "c">>, <<"a", "c", "c", "o", "u", "n", "t", ":", "l", "i", "s", "t", ":", "x", " ", "5">>, <<"l", "i", "s", "t", " ", "a", "c", "c", "o", "u", "n", "t">>,
      <<":", "l", "i", "s", "t">>, <<"a", "c", "c", "o", "u", "n", "t", ":">>, <<"a", "c", "c", "o", "u", "n", "t", ":", "f", "o", "o">>, <<"x", ":", "y", " ", "a", "=", "t", "r", "u", "e", " ", "b", "=", "f", "a", "l", "s", "e", " ", "c", "=", "1", "0">>,
      <<"a", "c", "c", "o", "u", "n", "t", ":", "g", "e", "t", " ", "1", "2", "3">>, <<"x", ":", "y", " ", "a", "=", "a", "b", "c">>, <<"x", ":", "y", " ", "a", "=", "-", "5", " ", "b", "=", "+", "7", " ", "c", "=", "0", "0", "7">>, <<"x", ":", "y", " ", "a", "=">>,
      <<"x", ":", "y", " ", "a", "=", "b", "=", "c">>, <<"x", ":", "y", " ", "_", "_", "p", "r", "o", "t", "o", "_", "_", "=", "5">>, <<"x", ":", "y", " ", "a", "=", "T", "r", "u", "e">>, <<"x", ":", "y", " ", "a", "=", "1", " ", "a", "=", "a", "b", "c">>,
      <<"a", "c", "c", "o", "u", "n", "t", ":", "l", "i", "s", "t">>, <<"a", "c", "c", "o", "u", "n", "t", ":", "L", "I", "S", "T", " ", "n", "a", "m", "e", "=", "*", "M", "i", "c", "r", "o", "s", "o", "f", "t", "*">>, <<"a", "c", "c", "o", "u", "n", "t", ":", "l", "s", " ", "n", "a", "m", "e", "=", "M", "i", "c", "r", "o", "*">>,
      <<"a", "c", "c", "o", "u", "n", "t", ":", "l", "i", "s", "t", " ", "n", "a", "m", "e", "=", "*", "s", "o", "f", "t">>, <<"a", "c", "c", "o", "u", "n", "t", ":", "l", "i", "s", "t", " ", "n", "a", "m", "e", "=", "C", "o", "n", "t", "o", "s", "o">>,
      <<"a", "c", "c", "o", "u", "n", "t", ":", "l", "i", "s", "t", " ", "n", "a", "m", "e", "=", "a", "*", "b">>, <<"a", "c", "c", "o", "u", "n", "t", ":", "l", "i", "s", "t", " ", "n", "a", "m", "e", "=", "*">>,
      <<"c", "o", "n", "t", "a", "t", "o", ":", "l", "i", "s", "t", " ", " ", "n", "a", "m", "e", "=", "*", "a", "*", " ", "c", "i", "t", "y", "=", "L", "i", "s", "b", "o", "a">>, <<"a", "c", "c", "o", "u", "n", "t", ":", "l", "i", "s", "t", " ", "1", "2", "3">>,
      <<"a", "c", "c", "o", "u", "n", "t", ":", "l", "i", "s", "t", " ", "i", "d", "=", "a", "b", "c">>, <<"a", "c", "c", "o", "u", "n", "t", ":", "l", "i", "s", "t", " ", "t", "o", "p", "=", "5", " ", "n", "a", "m", "e", "=", "x">>,
      <<"a", "c", "c", "o", "u", "n", "t", ":", "l", "i", "s", "t", " ", "s", "e", "l", "e", "c", "t", "=", "n", "a", "m", "e", ",", "c", "i", "t", "y", " ", "r", "e", "v", "e", "n", "u", "e", "=", "1", "0", "0">>, <<"a", "c", "c", "o", "u", "n", "t", ":", "l", "i", "s", "t", " ", "a", "c", "t", "i", "v", "e", "=", "t", "r", "u", "e">>,
      <<"a", "c", "c", "o", "u", "n", "t", ":", "l", "i", "s", "t", " ", "s", "e", "l", "e", "c", "t", "=", "5">>, <<"x", "y", "z", ":", "l", "i", "s", "t", " ", "l", "i", "m", "i", "t", "=", "0", " ", "o", "r", "d", "e", "r", "=", "n", "a", "m", "e">>,
      <<"a", "c", "c", "o", "u", "n", "t", ":", "g", "e", "t">>, <<"a", "c", "c", "o", "u", "n", "t", ":", "g", "e", "t", " ", "i", "d", "=", "0">>, <<"a", "c", "c", "o", "u", "n", "t", ":", "s", "h", "o", "w", " ", "n", "a", "m", "e", "=", "x">>,
      <<"a", "c", "c", "o", "u", "n", "t", ":", "u", "p", "d", "a", "t", "e">>, <<"a", "c", "c", "o", "u", "n", "t", ":", "u", "p", "d", "a", "t", "e", " ", "1", "2", "3">>, <<"a", "c", "c", "o", "u", "n", "t", ":", "u", "p", "d", "a", "t", "e", " ", "n", "a", "m", "e", "=", "x">>,
      <<"a", "c", "c", "o", "u", "n", "t", ":", "u", "p", "d", "a", "t", "e", " ", "1", "2", "3", " ", "n", "a", "m", "e", "=", "x">>, <<"a", "c", "c", "o", "u", "n", "t", ":", "d", "e", "l", "e", "t", "e">>, <<"a", "c", "c", "o", "u", "n", "t", ":", "r", "m", " ", "1", "2", "3">>,
      <<"a", "c", "c", "o", "u", "n", "t", ":", "c", "r", "e", "a", "t", "e">>, <<"a", "c", "c", "o", "u", "n", "t", ":", "c", "r", "e", "a", "t", "e", " ", "1", "2", "3">>, <<"a", "c", "c", "o", "u", "n", "t", ":", "n", "e", "w", " ", "n", "a", "m", "e", "=", "x">>,
      <<"a", "c", "c", "o", "u", "n", "t", ":", "c", "o", "u", "n", "t">>, <<"a", "c", "c", "o", "u", "n", "t", ":", "c", "o", "u", "n", "t", " ", "n", "a", "m", "e", "=", "*", "a", "*">>, <<"a", "c", "c", "o", "u", "n", "t", ":", "c", "o", "u", "n", "t", " ", "t", "o", "p", "=", "5">>,
      <<"a", "c", "c", "o", "u", "n", "t", ":", "c", "o", "u", "n", "t", " ", "l", "i", "m", "i", "t", "=", "5", " ", "n", "a", "m", "e", "=", "x">>, <<"a", "c", "c", "o", "u", "n", "t", ":", "c", "o", "u", "n", "t", " ", "s", "e", "l", "e", "c", "t", "=", "n", "a", "m", "e">>,
      <<"a", "c", "c", "o", "u", "n", "t", ":", "c", "o", "u", "n", "t", " ", "o", "r", "d", "e", "r", "B", "y", "=", "n", "a", "m", "e">>, <<"a", "c", "c", "o", "u", "n", "t", ":", "c", "o", "u", "n", "t", " ", "1", "2", "3">>,
      <<"a", "c", "c", "o", "u", "n", "t", ":", "f", "i", "e", "l", "d", "s">>, <<"c", "o", "n", "t", "a", "t", "o", ":", "s", "c", "h", "e", "m", "a">>, <<"x", "y", "z", ":", "f", "i", "e", "l", "d", "s">> }

\* ---- NLQueryService (src/src/services/nlQueryService.ts) ----

\* entityMappings of NLQueryService
nlEntityMappings ==
    << << <<"c", "o", "n", "t", "a">>, <<"a", "c", "c", "o", "u", "n", "t", "s">> >>, << <<"c", "o", "n", "t", "a", "s">>, <<"a", "c", "c", "o", "u", "n", "t", "s">> >>,
       << <<"a", "c", "c", "o", "u", "n", "t">>, <<"a", "c", "c", "o", "u", "n", "t", "s">> >>, << <<"a", "c", "c", "o", "u", "n", "t", "s">>, <<"a", "c", "c", "o", "u", "n", "t", "s">> >>,
       << <<"c", "o", "n", "t", "a", "t", "o">>, <<"c", "o", "n", "t", "a", "c", "t", "s">> >>, << <<"c", "o", "n", "t", "a", "t", "o", "s">>, <<"c", "o", "n", "t", "a", "c", "t", "s">> >>,
       << <<"c", "o", "n", "t", "a", "c", "t">>, <<"c", "o", "n", "t", "a", "c", "t", "s">> >>, << <<"c", "o", "n", "t", "a", "c", "t", "s">>, <<"c", "o", "n", "t", "a", "c", "t", "s">> >>,
       << <<"c", "a", "s", "o">>, <<"i", "n", "c", "i", "d", "e", "n", "t", "s">> >>, << <<"c", "a", "s", "o", "s">>, <<"i", "n", "c", "i", "d", "e", "n", "t", "s">> >>,
       << <<"c", "a", "s", "e">>, <<"i", "n", "c", "i", "d", "e", "n", "t", "s">> >>, << <<"c", "a", "s", "e", "s">>, <<"i", "n", "c", "i", "d", "e", "n", "t", "s">> >>,
       << <<"i", "n", "c", "i", "d", "e", "n", "t", "s">>, <<"i", "n", "c", "i", "d", "e", "n", "t", "s">> >>, << <<"o", "p", "o", "r", "t", "u", "n", "i", "d", "a", "d", "e">>, <<"o", "p", "p", "o", "r", "t", "u", "n", "i", "t", "i", "e", "s">> >>,
       << <<"o", "p", "o", "r", "t", "u", "n", "i", "d", "a", "d", "e", "s">>, <<"o", "p", "p", "o", "r", "t", "u", "n", "i", "t", "i", "e", "s">> >>, << <<"o", "p", "p", "o", "r", "t", "u", "n", "i", "t", "y">>, <<"o", "p", "p", "o", "r", "t", "u", "n", "i", "t", "i", "e", "s">> >>,
       << <<"o", "p", "p", "o", "r", "t", "u", "n", "i", "t", "i", "e", "s">>, <<"o", "p", "p", "o", "r", "t", "u", "n", "i", "t", "i", "e", "s">> >>, << <<"l", "e", "a", "d">>, <<"l", "e", "a", "d", "s">> >>,
       << <<"l", "e", "a", "d", "s">>, <<"l", "e", "a", "d", "s">> >>, << <<"a", "t", "i", "v", "i", "d", "a", "d", "e">>, <<"a", "c", "t", "i", "v", "i", "t", "i", "e", "s">> >>,
       << <<"a", "t", "i", "v", "i", "d", "a", "d", "e", "s">>, <<"a", "c", "t", "i", "v", "i", "t", "i", "e", "s">> >>, << <<"a", "c", "t", "i", "v", "i", "t", "y">>, <<"a", "c", "t", "i", "v", "i", "t", "i", "e", "s">> >>,
       << <<"a", "c", "t", "i", "v", "i", "t", "i", "e", "s">>, <<"a", "c", "t", "i", "v", "i", "t", "i", "e", "s">> >>, << <<"t", "a", "r", "e", "f", "a">>, <<"t", "a", "s", "k", "s">> >>,
       << <<"t", "a", "r", "e", "f", "a", "s">>, <<"t", "a", "s", "k", "s">> >>, << <<"t", "a", "s", "k">>, <<"t", "a", "s", "k", "s">> >>,
       << <<"t", "a", "s", "k", "s">>, <<"t", "a", "s", "k", "s">> >>, << <<"e", "m", "a", "i", "l">>, <<"e", "m", "a", "i", "l", "s">> >>,
       << <<"e", "m", "a", "i", "l", "s">>, <<"e", "m", "a", "i", "l", "s">> >>, << <<"r", "e", "u", "n", "i", "a_tilde", "o">>, <<"a", "p", "p", "o", "i", "n", "t", "m", "e", "n", "t", "s">> >>,
       << <<"r", "e", "u", "n", "i", "o_tilde", "e", "s">>, <<"a", "p", "p", "o", "i", "n", "t", "m", "e", "n", "t", "s">> >>, << <<"a", "p", "p", "o", "i", "n", "t", "m", "e", "n", "t">>, <<"a", "p", "p", "o", "i", "n", "t", "m", "e", "n", "t", "s">> >>,
       << <<"a", "p", "p", "o", "i", "n", "t", "m", "e", "n", "t", "s">>, <<"a", "p", "p", "o", "i", "n", "t", "m", "e", "n", "t", "s">> >>, << <<"t", "e", "l", "e", "f", "o", "n", "e">>, <<"p", "h", "o", "n", "e", "c", "a", "l", "l", "s">> >>,
       << <<"c", "h", "a", "m", "a", "d", "a">>, <<"p", "h", "o", "n", "e", "c", "a", "l", "l", "s">> >>, << <<"c", "h", "a", "m", "a", "d", "a", "s">>, <<"p", "h", "o", "n", "e", "c", "a", "l", "l", "s">> >>,
       << <<"p", "h", "o", "n", "e", "c", "a", "l", "l">>, <<"p", "h", "o", "n", "e", "c", "a", "l", "l", "s">> >>, << <<"p", "h", "o", "n", "e", "c", "a", "l", "l", "s">>, <<"p", "h", "o", "n", "e", "c", "a", "l", "l", "s">> >> >>

\* actionMappings of NLQueryService
actionMappings ==
    << << <<"m", "o", "s", "t", "r", "a", "r">>, <<"l", "i", "s", "t">> >>, << <<"l", "i", "s", "t", "a", "r">>, <<"l", "i", "s", "t">> >>,
       << <<"e", "x", "i", "b", "i", "r">>, <<"l", "i", "s", "t">> >>, << <<"b", "u", "s", "c", "a", "r">>, <<"l", "i", "s", "t">> >>,
       << <<"e", "n", "c", "o", "n", "t", "r", "a", "r">>, <<"l", "i", "s", "t">> >>, << <<"p", "e", "s", "q", "u", "i", "s", "a", "r">>, <<"l", "i", "s", "t">> >>,
       << <<"p", "r", "o", "c", "u", "r", "a", "r">>, <<"l", "i", "s", "t">> >>, << <<"o", "b", "t", "e", "r">>, <<"g", "e", "t">> >>,
       << <<"p", "e", "g", "a", "r">>, <<"g", "e", "t">> >>, << <<"d", "e", "t", "a", "l", "h", "a", "r">>, <<"g", "e", "t">> >>,
       << <<"d", "e", "t", "a", "l", "h", "e", "s">>, <<"g", "e", "t">> >>, << <<"c", "r", "i", "a", "r">>, <<"c", "r", "e", "a", "t", "e">> >>,
       << <<"a", "d", "i", "c", "i", "o", "n", "a", "r">>, <<"c", "r", "e", "a", "t", "e">> >>, << <<"n", "o", "v", "o">>, <<"c", "r", "e", "a", "t", "e">> >>,
       << <<"n", "o", "v", "a">>, <<"c", "r", "e", "a", "t", "e">> >>, << <<"a", "t", "u", "a", "l", "i", "z", "a", "r">>, <<"u", "p", "d", "a", "t", "e">> >>,
       << <<"m", "o", "d", "i", "f", "i", "c", "a", "r">>, <<"u", "p", "d", "a", "t", "e">> >>, << <<"e", "d", "i", "t", "a", "r">>, <<"u", "p", "d", "a", "t", "e">> >>,
       << <<"a", "l", "t", "e", "r", "a", "r">>, <<"u", "p", "d", "a", "t", "e">> >>, << <<"d", "e", "l", "e", "t", "a", "r">>, <<"d", "e", "l", "e", "t", "e">> >>,
       << <<"e", "x", "c", "l", "u", "i", "r">>, <<"d", "e", "l", "e", "t", "e">> >>, << <<"r", "e", "m", "o", "v", "e", "r">>, <<"d", "e", "l", "e", "t", "e">> >>,
       << <<"a", "p", "a", "g", "a", "r">>, <<"d", "e", "l", "e", "t", "e">> >> >>

\* operatorMappings of NLQueryService
operatorMappings ==
    << << <<"i", "g", "u", "a", "l">>, <<"e", "q">> >>, << <<"i", "g", "u", "a", "l", " ", "a">>, <<"e", "q">> >>,
       << <<"=">>, <<"e", "q">> >>, << <<"=", "=">>, <<"e", "q">> >>,
       << <<"d", "i", "f", "e", "r", "e", "n", "t", "e">>, <<"n", "e">> >>, << <<"d", "i", "f", "e", "r", "e", "n", "t", "e", " ", "d", "e">>, <<"n", "e">> >>,
       << <<"!", "=">>, <<"n", "e">> >>, << <<"<", ">">>, <<"n", "e">> >>,
       << <<"m", "a", "i", "o", "r">>, <<"g", "t">> >>, << <<"m", "a", "i", "o", "r", " ", "q", "u", "e">>, <<"g", "t">> >>,
       << <<">">>, <<"g", "t">> >>, << <<"m", "e", "n", "o", "r">>, <<"l", "t">> >>,
       << <<"m", "e", "n", "o", "r", " ", "q", "u", "e">>, <<"l", "t">> >>, << <<"<">>, <<"l", "t">> >>,
       << <<"m", "a", "i", "o", "r", " ", "o", "u", " ", "i", "g", "u", "a", "l">>, <<"g", "e">> >>, << <<"m", "a", "i", "o", "r", " ", "o", "u", " ", "i", "g", "u", "a", "l", " ", "a">>, <<"g", "e">> >>,
       << <<">", "=">>, <<"g", "e">> >>, << <<"m", "e", "n", "o", "r", " ", "o", "u", " ", "i", "g", "u", "a", "l">>, <<"l", "e">> >>,
       << <<"m", "e", "n", "o", "r", " ", "o", "u", " ", "i", "g", "u", "a", "l", " ", "a">>, <<"l", "e">> >>, << <<"<", "=">>, <<"l", "e">> >>,
       << <<"c", "o", "n", "t", "e_acute", "m">>, <<"c", "o", "n", "t", "a", "i", "n", "s">> >>, << <<"c", "o", "n", "t", "e", "m">>, <<"c", "o", "n", "t", "a", "i", "n", "s">> >>,
       << <<"i", "n", "i", "c", "i", "a", " ", "c", "o", "m">>, <<"s", "t", "a", "r", "t", "s", "w", "i", "t", "h">> >>, << <<"c", "o", "m", "e", "c_cedil", "a", " ", "c", "o", "m">>, <<"s", "t", "a", "r", "t", "s", "w", "i", "t", "h">> >>,
       << <<"t", "e", "r", "m", "i", "n", "a", " ", "c", "o", "m">>, <<"e", "n", "d", "s", "w", "i", "t", "h">> >> >>

\* normalizeText: normalize('NFD'), the combining marks removed, lower case
BaseLetters ==
    [ c \in {"a_tilde", "a_acute", "a_grave"} |-> "a" ] @@
    [ c \in {"e_acute"} |-> "e" ] @@ [ c \in {"i_acute"} |-> "i" ] @@
    [ c \in {"o_acute", "o_tilde"} |-> "o" ] @@ [ c \in {"u_acute"} |-> "u" ] @@
    [ c \in {"c_cedil"} |-> "c" ]
normalizeText(text) ==
    [ i \in 1..Len(text) |->
        IF text[i] \in DOMAIN BaseLetters THEN BaseLetters[text[i]]
        ELSE ToLowerChar(text[i]) ]

\* stopWords of parseQuery
stopWords ==
    << <<"o">>, <<"a">>, <<"o", "s">>, <<"a", "s">>, <<"u", "m">>, <<"u", "m", "a">>, <<"u", "n", "s">>, <<"u", "m", "a", "s">>,
       <<"d", "e">>, <<"d", "o">>, <<"d", "a">>, <<"d", "o", "s">>, <<"d", "a", "s">>, <<"n", "o">>, <<"n", "a">>, <<"n", "o", "s">>,
       <<"n", "a", "s">>, <<"a", "o">>, <<"a", "o", "s">>, <<"a_grave">>, <<"a_grave", "s">>, <<"p", "e", "l", "o">>, <<"p", "e", "l", "a">>, <<"p", "e", "l", "o", "s">>,
       <<"p", "e", "l", "a", "s">>, <<"c", "o", "m">>, <<"p", "a", "r", "a">>, <<"p", "o", "r">>, <<"e", "m">>, <<"s", "o", "b", "r", "e">>, <<"s", "o", "b">>, <<"e", "n", "t", "r", "e">>,
       <<"q", "u", "e">>, <<"q", "u", "e", "m">>, <<"q", "u", "a", "l">>, <<"q", "u", "a", "i", "s">>, <<"q", "u", "a", "n", "d", "o">>, <<"o", "n", "d", "e">>, <<"c", "o", "m", "o">>, <<"e">>,
       <<"o", "u">>, <<"m", "a", "s">>, <<"p", "o", "r", "e", "m">>, <<"t", "o", "d", "a", "v", "i", "a">>, <<"e", "n", "t", "r", "e", "t", "a", "n", "t", "o">>, <<"c", "o", "n", "t", "u", "d", "o">> >>

\* query.split(/\s+/): the pieces between the runs of white space, an empty piece
\* where the text starts or ends with white space
RECURSIVE splitWhitespace(_)
splitWhitespace(s) ==
    IF SpaceFrom(s, 1) = 0 THEN << s >>
    ELSE << SubSeq(s, 1, SpaceFrom(s, 1) - 1) >>
         \o splitWhitespace(trimStart(SubSeq(s, SpaceFrom(s, 1), Len(s))))

\* words = query.split(/\s+/).filter(word => word && !stopWords.includes(word))
WordsOf(query) ==
    SelectSeq(splitWhitespace(query),
              LAMBDA word : word # << >> /\ word \notin Range(stopWords))

\* The words of the limit rule
LimitWords == { <<"t", "o", "p">>, <<"l", "i", "m", "i", "t", "e">>, <<"l", "i", "m", "i", "t", "a", "r">>, <<"l", "i", "m", "i", "t", "a", "d", "o">>, <<"m", "a", "x", "i", "m", "o">>, <<"m", "a", "x">> }

\* The limit rule without the test limitValue > 0
LimitAtAnyNumber(words, i) ==
    IF words[i] \in LimitWords /\ i < Len(words) THEN parseInt(words[i + 1]) ELSE None

\* The value of the limit rule at words[i]: parseInt(words[i + 1]) when the word
\* is a limit word, is not the last word, and the number is above 0; else None
LimitAt(words, i) ==
    IF words[i] \in LimitWords /\ i < Len(words)
    THEN IF parseInt(words[i + 1]) # None /\ Get(parseInt(words[i + 1])) > 0
         THEN parseInt(words[i + 1]) ELSE None
    ELSE None

\* The filter rule applies at words[i]: two words follow and the next one has an
\* entry in operatorMappings
FilterAt(words, i) ==
    i < Len(words) - 1 /\ Lookup(operatorMappings, words[i + 1]) # None

\* The result of parseQuery before the scan; rules names, for every word, the rule
\* of the scan that took it ("none": no rule took it)
NoQueryResult(words) ==
    [ entity |-> None, action |-> None, filters |-> << >>, limit |-> None,
      rules |-> [ i \in DOMAIN words |-> "none" ] ]

\* The for loop of parseQuery from words[i] on
RECURSIVE ScanWords(_, _, _)
ScanWords(words, i, result) ==
    IF i > Len(words) THEN result
    ELSE IF result.action = None /\ Lookup(actionMappings, words[i]) # None
    THEN ScanWords(words, i + 1,
                   [result EXCEPT !.action = Lookup(actionMappings, words[i]),
                                  !.rules[i] = "action"])
    ELSE IF result.entity = None /\ Lookup(nlEntityMappings, words[i]) # None
    THEN ScanWords(words, i + 1,
                   [result EXCEPT !.entity = Lookup(nlEntityMappings, words[i]),
                                  !.rules[i] = "entity"])
    ELSE IF LimitAt(words, i) # None
    THEN ScanWords(words, i + 2,
                   [result EXCEPT !.limit = LimitAt(words, i),
                                  !.rules[i] = "limit", !.rules[i + 1] = "limit"])
    ELSE IF FilterAt(words, i)
    THEN ScanWords(words, i + 3,
                   [result EXCEPT
                      !.filters = SetParam(@, words[i],
                                    [ operator |-> Get(Lookup(operatorMappings, words[i + 1])),
                                      value |-> words[i + 2] ]),
                      !.rules[i] = "filter", !.rules[i + 1] = "filter",
                      !.rules[i + 2] = "filter"])
    ELSE ScanWords(words, i + 1, result)

\* query.match(/campos\s+([^.]+)/i): the first group of the first match, None
\* when there is no match.  The white space takes all it can and gives its last
\* character to the group when no other character is left for the group
NotDotEnd(query, i) ==
    LET dots == { j \in i..Len(query) : query[j] = "." }
    IN  IF dots = {} THEN Len(query)
        ELSE (CHOOSE j \in dots : \A k \in dots : j <= k) - 1
SpaceEnd(query, i) ==
    LET others == { j \in i..Len(query) : ~IsSpace(query[j]) }
    IN  IF others = {} THEN Len(query)
        ELSE (CHOOSE j \in others : \A k \in others : j <= k) - 1
CamposGroupAt(query, p) ==
    IF ~(p + 6 <= Len(query) /\ SubSeq(query, p, p + 5) = <<"c", "a", "m", "p", "o", "s">>
         /\ IsSpace(query[p + 6]))
    THEN None
    ELSE IF SpaceEnd(query, p + 6) < Len(query) /\ query[SpaceEnd(query, p + 6) + 1] # "."
    THEN Some(SubSeq(query, SpaceEnd(query, p + 6) + 1,
                     NotDotEnd(query, SpaceEnd(query, p + 6) + 1)))
    ELSE IF SpaceEnd(query, p + 6) > p + 6
    THEN Some(<< query[SpaceEnd(query, p + 6)] >>)
    ELSE None
CamposGroup(query) ==
    LET starts == { p \in 1..Len(query) : CamposGroupAt(query, p) # None }
    IN  IF starts = {} THEN None
        ELSE CamposGroupAt(query, CHOOSE p \in starts : \A q \in starts : p <= q)

\* group.split(/\s*,\s*/): the pieces between the commas, without the white space
\* next to a comma
splitCommaSpaces(s) ==
    LET pieces == splitComma(s)
    IN  [ j \in DOMAIN pieces |->
            IF j = 1 /\ j = Len(pieces) THEN pieces[j]
            ELSE IF j = 1 THEN trimEnd(pieces[j])
            ELSE IF j = Len(pieces) THEN trimStart(pieces[j])
            ELSE trim(pieces[j]) ]

\* parseQuery(query): the scan, 'list' when no action was found, and the fields
ParsedQuery(scanned, group) ==
    [ entity |-> scanned.entity,
      action |-> IF scanned.action = None THEN Some(<<"l", "i", "s", "t">>) ELSE scanned.action,
      filters |-> scanned.filters,
      fields |-> IF group = None THEN None ELSE Some(splitCommaSpaces(Get(group))),
      limit |-> scanned.limit ]
parseQuery(query) ==
    ParsedQuery(ScanWords(WordsOf(query), 1, NoQueryResult(WordsOf(query))),
                CamposGroup(query))

\* The rule that took each word of the query in parseQuery
RulesOf(query) == ScanWords(WordsOf(query), 1, NoQueryResult(WordsOf(query))).rules

\* processQuery up to the result of parseQuery, for a query given at the start
ParseQuery ==
    /\ applied.fn = "processQuery"
    /\ returned = << >>
    /\ returned' = parseQuery(normalizeText(applied.arg))
    /\ UNCHANGED <<applied, commandCalls>>

\* The queries: up to MaxWords words of QueryWords with one space between them,
\* and queries with other white space, capitals, accents and field lists
MaxWords == 4
QueryWords ==
    << <<"l", "i", "s", "t", "a", "r">>, <<"c", "a", "s", "o", "s">>, <<"n", "o", "m", "e">>, <<"=">>, <<"t", "o", "p">>, <<"m", "a", "x">>, <<"5">>, <<"3">>, <<"0">>, <<"d", "e">> >>
WordLists == UNION { [1..n -> DOMAIN QueryWords] : n \in 1..MaxWords }
QueryOf(list) == join([ i \in DOMAIN list |-> QueryWords[list[i]] ], <<" ">>)
OtherQueries ==
    { <<>>, <<" ", "l", "i", "s", "t", "a", "r", " ", " ", "c", "a", "s", "o", "s", " ", "t", "o", "p", " ", "5", " ">>, <<"L", "i", "s", "t", "a", "r", " ", "C", "a", "s", "o", "s", " ", "T", "O", "P", " ", "5">>, <<"l", "i", "s", "t", "a", "r", " ", "r", "e", "u", "n", "i", "o_tilde", "e", "s", " ", "m", "a_acute", "x", "i", "m", "o", " ", "5">>,
      <<"c", "a", "s", "o", "s", " ", "l", "i", "m", "i", "t", "e", " ", "5", "a", "b", "c">>, <<"c", "a", "s", "o", "s", " ", "l", "i", "m", "i", "t", "a", "r", " ", "-", "5">>, <<"c", "a", "s", "o", "s", " ", "l", "i", "m", "i", "t", "a", "d", "o", " ", "+", "5">>, <<"c", "a", "s", "o", "s", " ", "m", "a", "x", "i", "m", "o", " ", "0", "0", "7">>,
      <<"c", "a", "s", "o", "s", " ", "t", "o", "p">>, <<"c", "a", "s", "o", "s", " ", "t", "o", "p", " ", "x">>, <<"c", "o", "n", "t", "a", "s", " ", "n", "o", "m", "e", " ", "c", "o", "n", "t", "e", "m", " ", "t", "o", "p", " ", "5">>, <<"c", "o", "n", "t", "a", "s", " ", "x", " ", "c", "o", "n", "s", "t", "r", "u", "c", "t", "o", "r", " ", "m", "a", "x", " ", "3">>,
      <<"c", "o", "n", "s", "t", "r", "u", "c", "t", "o", "r", " ", "_", "_", "p", "r", "o", "t", "o", "_", "_", " ", "t", "o", "p", " ", "5">>, <<"c", "a", "s", "o", "s", " ", "c", "a", "m", "p", "o", "s", " ", "t", "i_acute", "t", "u", "l", "o", ",", " ", "s", "t", "a", "t", "u", "s", " ", ".", " ", "t", "o", "p", " ", "5">>,
      <<"c", "a", "s", "o", "s", " ", "c", "a", "m", "p", "o", "s", " ", " ">>, <<"c", "a", "s", "o", "s", " ", "c", "a", "m", "p", "o", "s", " ", ".">>, <<"c", "a", "s", "o", "s", " ", "c", "a", "m", "p", "o", "s", " ", "a", " ", ",", "b", " ", ",", " ", "c">>,
      <<"c", "a", "s", "o", "s", " ", "t", "o", "p", " ", "5", " ", "c", "a", "m", "p", "o", "s", " ", "n", "o", "m", "e">>, <<"c", "a", "s", "o", "s", " ", "n", "o", "m", "e", " ", "=", " ", "j", "o", "a_tilde", "o", " ", "t", "o", "p", " ", "5">>, <<"t", "o", "p", " ", "5", " ", "=", " ", "3">>, <<"t", "o", "p", " ", "3", " ", "=", " ", "t", "o", "p", " ", "5">>, <<"c", "a", "s", "o", "s", " ", "t", "o", "p", " ", "5", " ", "m", "a", "x", " ", "3", "a", "b", "c">>,
      <<"c", "a", "s", "o", "s", " ", "t", "o", "p", " ", "5", " ", "m", "a", "x", " ", "0">>, <<"c", "a", "s", "o", "s", " ", "n", "o", "m", "e", " ", "=", " ", "t", "o", "p", " ", "3", " ", "m", "a", "x", " ", "5">> }
\* A query with a filter: an action, an entity, a field, a phrase of
\* operatorMappings and a value
PhraseQuery(k) == <<"l", "i", "s", "t", "a", "r", " ", "c", "o", "n", "t", "a", "s", " ", "n", "o", "m", "e", " ">> \o operatorMappings[k][1] \o <<" ", "x">>
PhraseQueries == { PhraseQuery(k) : k \in DOMAIN operatorMappings }
QueryInputs == { QueryOf(list) : list \in WordLists } \cup OtherQueries \cup PhraseQueries

QueryInit ==
    /\ applied \in { Call("processQuery", query) : query \in QueryInputs }
    /\ returned = << >>
    /\ commandCalls = << >>

---------------------------------------------------------------------------
(* parseFilterInput of the query assistant on filter phrases.              *)

\* The phrases a filter is typed with: between the field and the value
FilterPhrases ==
    << <<" ", ">", "=", " ">>, <<" ", "m", "a", "i", "o", "r", " ", "o", "u", " ", "i", "g", "u", "a", "l", " ", "a", " ">>, <<" ", "<", "=", " ">>, <<" ", "m", "e", "n", "o", "r", " ", "o", "u", " ", "i", "g", "u", "a", "l", " ", "a", " ">>, <<" ", "!", "=", " ">>,
       <<" ", ">", " ">>, <<" ", "<", " ">>, <<" ", "=", " ">>, <<" ", "i", "g", "u", "a", "l", " ", "a", " ">>, <<" ", "m", "a", "i", "o", "r", " ", "q", "u", "e", " ">>, <<" ", "m", "e", "n", "o", "r", " ", "q", "u", "e", " ">>,
       <<" ", "d", "i", "f", "e", "r", "e", "n", "t", "e", " ", "d", "e", " ">>, <<" ", "c", "o", "n", "t", "e_acute", "m", " ">>, <<" ", "c", "o", "m", "e", "c_cedil", "a", " ", "c", "o", "m", " ">>, <<" ", "t", "e", "r", "m", "i", "n", "a", " ", "c", "o", "m", " ">>,
       <<" ", "a", "p", "o_acute", "s", " ">>, <<" ", "a", "n", "t", "e", "s", " ", "d", "e", " ">>, <<">", "=">>, <<"<", "=">>, <<"!", "=">>, <<"=">>, <<">">>, <<"<">> >>
FilterFields == { <<"f">>, <<"n", "o", "m", "e">>, <<"r", "e", "v", "e", "n", "u", "e">> }
FilterValues == { <<"5">>, <<"x">>, <<"'", "a", " ", "b", "'">> }
PhraseInput(field, k, value) == field \o FilterPhrases[k] \o value
FilterInputs ==
    { PhraseInput(field, k, value) :
        field \in FilterFields, k \in DOMAIN FilterPhrases, value \in FilterValues }
    \cup { <<>>, <<"f">>, <<"f", " ", "5">> }

\* processFilterStep's call: this.parseFilterInput(normalizedInput)
ParseFilterInput ==
    /\ applied.fn = "parseFilterInput"
    /\ returned = << >>
    /\ returned' = << parseFilterInput(toLowerCase(trim(applied.arg))) >>
    /\ UNCHANGED <<applied, commandCalls>>

FilterInit ==
    /\ applied \in { Call("parseFilterInput", input) : input \in FilterInputs }
    /\ returned = << >>
    /\ commandCalls = << >>

\* A session at its filter step, with the entity and the action it was given
SessionAtFilter(entity, action) ==
    [ NewSession(BootTime) EXCEPT !.entity = Some(entity), !.action = Some(action),
                                  !.currentStep = "filter" ]

\* What the user replies at the filter step
ClauseInputs == { <<"1", "2", "3">>, <<"i", "d", " ", "=", " ", "1", "2", "3">>, <<"I", "D", " ", "=", " ", "a", "b", "c">>, <<"i", "d", "=", "5">>, <<"n", "o", "m", "e", " ", "=", " ", "x">>, <<"n", "a_tilde", "o">> }
ClauseEntities == { entityMappings[i][2] : i \in DOMAIN entityMappings }
ClauseActions == { "list", "get", "count" }

\* The filter of the query: the reply goes through processFilterStep, and the
\* filter map of the session through buildODataFilter, as executeQuery calls it
BuildFilter ==
    /\ applied.fn = "buildODataFilter"
    /\ returned = << >>
    /\ LET session == processFilterStep(SessionAtFilter(applied.arg.entity, applied.arg.action),
                                        applied.arg.input).session
       IN  returned' = IF session.filter = None THEN << None >>
                       ELSE << Some(buildODataFilter(applied.arg.entity, Get(session.filter))) >>
    /\ UNCHANGED <<applied, commandCalls>>

ClauseInit ==
    /\ applied \in { Call("buildODataFilter", [ entity |-> entity, action |-> action,
                                                 input |-> input ]) :
                        entity \in ClauseEntities, action \in ClauseActions,
                        input \in ClauseInputs }
    /\ returned = << >>
    /\ commandCalls = << >>

---------------------------------------------------------------------------
(* run-sse: the SSE transports and POST /mcp/messages.                     *)

MAX_SESSION_IDLE_TIME_MS == 3600000

\* The session ids the transports are created with, and the sessionId of the
\* query string of a POST: an id, its alternate spellings, an id in capitals,
\* the id of no transport, and none
TransportIds == { <<"a", "1", "-", "b", "2">>, <<"c", "3", "-", "d", "4">> }
RequestIds == TransportIds \cup { <<"a", "1", "b", "2">>, <<"c", "3", "d", "4">>, <<"A", "1", "-", "B", "2">>, <<"z", "z", "-", "9", "9">>, <<>> }

\* sessionId.replace(/-/g, '')
removeHyphens(s) == SelectSeq(s, LAMBDA c : c # "-")

\* The keys registerSessionIdFormats writes for the id
SessionIdFormats(sessionId) ==
    { sessionId, toLowerCase(sessionId), removeHyphens(sessionId),
      removeHyphens(toLowerCase(sessionId)) }

\* registerSessionIdFormats(sessionId) on the map
registerSessionIdFormats(map, sessionId) ==
    [ k \in DOMAIN map \cup SessionIdFormats(sessionId) |->
        IF k \in SessionIdFormats(sessionId) THEN sessionId ELSE map[k] ]

\* Object.keys(transports), and transports[sessionId]
TransportKeys == { transports[i].sessionId : i \in DOMAIN transports }
HasTransport(sessionId) == sessionId \in TransportKeys

\* The keys of sessionIdMap that do not stand for one of the ids
WithoutIds(map, ids) ==
    [ k \in { key \in DOMAIN map : map[key] \notin ids } |-> map[k] ]

\* GET /mcp/sse: a transport is created, registered under its session id with
\* the time, and the spellings of the id are registered
Connect(sessionId) ==
    /\ ~HasTransport(sessionId)
    /\ transports' = Append(transports, [ sessionId |-> sessionId, lastActivity |-> now ])
    /\ sessionIdMap' = registerSessionIdFormats(sessionIdMap, sessionId)
    /\ posted' = [ op |-> "connect", sessionId |-> sessionId, handledBy |-> << >>,
                   status |-> 200 ]
    /\ UNCHANGED now

\* res.on('close'): the transport and every spelling that stands for it go
Close(sessionId) ==
    /\ HasTransport(sessionId)
    /\ transports' = SelectSeq(transports, LAMBDA t : t.sessionId # sessionId)
    /\ sessionIdMap' = WithoutIds(sessionIdMap, {sessionId})
    /\ posted' = [ op |-> "close", sessionId |-> sessionId, handledBy |-> << >>,
                   status |-> 200 ]
    /\ UNCHANGED now

\* cleanupInactiveSessions(): the transports idle for longer than
\* MAX_SESSION_IDLE_TIME_MS go, with their spellings
IdleIds == { transports[i].sessionId : i \in { j \in DOMAIN transports :
                 now - transports[j].lastActivity > MAX_SESSION_IDLE_TIME_MS } }
cleanupInactiveSessions ==
    /\ transports' = SelectSeq(transports, LAMBDA t : t.sessionId \notin IdleIds)
    /\ sessionIdMap' = WithoutIds(sessionIdMap, IdleIds)
    /\ posted' = [ op |-> "cleanup", sessionId |-> << >>, handledBy |-> << >>,
                   status |-> 200 ]
    /\ UNCHANGED now

\* updateLastActivity(sessionId)
updateLastActivity(sessionId) ==
    [ i \in DOMAIN transports |->
        IF transports[i].sessionId = sessionId
        THEN [transports[i] EXCEPT !.lastActivity = now] ELSE transports[i] ]

\* What a POST came to: the sessionId it carried, the transports whose
\* handlePostMessage was called with it, in order, and the status the handler
\* answered with; status 0 when the last transport called answered itself
Posted(sessionId, handledBy, status) ==
    [ op |-> "post", sessionId |-> sessionId, handledBy |-> handledBy, status |-> status ]

\* The fallbacks of POST /mcp/messages when transports[sessionId] is undefined:
\* the transport sessionIdMap names for the spelling, then the first active
\* transport, then 404.  handlePostMessage of the alternate throws when
\* altThrows, that of the first active transport when firstThrows
FallbackPosted(sessionId, altThrows, firstThrows) ==
    LET tryAlt == sessionId \in DOMAIN sessionIdMap /\ HasTransport(sessionIdMap[sessionId])
        viaAlt == IF tryAlt THEN << sessionIdMap[sessionId] >> ELSE << >>
    IN  IF tryAlt /\ ~altThrows THEN Posted(sessionId, viaAlt, 0)
        ELSE IF Len(transports) > 0
        THEN Posted(sessionId, Append(viaAlt, transports[1].sessionId),
                    IF firstThrows THEN 404 ELSE 0)
        ELSE Posted(sessionId, viaAlt, 404)

\* The handler reached the first active transport: it wrote the spelling into
\* sessionIdMap for that transport
FallbackMap(sessionId, altThrows) ==
    LET tryAlt == sessionId \in DOMAIN sessionIdMap /\ HasTransport(sessionIdMap[sessionId])
    IN  IF (tryAlt /\ ~altThrows) \/ Len(transports) = 0 THEN sessionIdMap
        ELSE [ k \in DOMAIN sessionIdMap \cup {sessionId} |->
                 IF k = sessionId THEN transports[1].sessionId ELSE sessionIdMap[k] ]

\* POST /mcp/messages?sessionId=...: the whole handler.  hasBody: req.body is
\* truthy
PostMessage(sessionId, hasBody, altThrows, firstThrows) ==
    /\ IF sessionId = <<>> \/ ~hasBody
       THEN /\ posted' = Posted(sessionId, << >>, 400)
            /\ UNCHANGED <<transports, sessionIdMap>>
       ELSE IF HasTransport(sessionId)
       THEN /\ transports' = updateLastActivity(sessionId)
            /\ posted' = Posted(sessionId, << sessionId >>, IF altThrows THEN 500 ELSE 0)
            /\ UNCHANGED sessionIdMap
       ELSE /\ posted' = FallbackPosted(sessionId, altThrows, firstThrows)
            /\ sessionIdMap' = FallbackMap(sessionId, altThrows)
            /\ UNCHANGED transports
    /\ UNCHANGED now

\* Time passes for the transports
SseTick(d) ==
    /\ (now + d - BootTime) \div MAX_SESSION_IDLE_TIME_MS < MaxTick + 1
    /\ (now + d - BootTime) % MAX_SESSION_IDLE_TIME_MS <= MaxTick
    /\ now' = now + d
    /\ UNCHANGED <<transports, sessionIdMap, posted>>

SseInit ==
    /\ transports = << >>
    /\ sessionIdMap = << >>
    /\ posted = [ op |-> "init", sessionId |-> << >>, handledBy |-> << >>, status |-> 200 ]

---------------------------------------------------------------------------
(* The specifications.                                                     *)

Init == AssistantInit /\ MetaInit /\ CallInit /\ SseInit

\* One conversation, every input at every step, one step of a session in flight
\* at a time, while the clock goes on by milliseconds
Next ==
    \/ /\ StartSession(MaxWalkSessions)
       /\ UNCHANGED <<raced, metaVars, callVars, sseVars>>
    \/ \E sid \in 1..(MaxWalkSessions + 1), input \in WalkInputs :
          /\ Idle(sid)
          /\ ProcessInput(sid, input)
          /\ UNCHANGED <<raced, metaVars, callVars, sseVars>>
    \/ \E i \in 1..MaxWalkSessions :
          /\ MetadataResolves(i)
          /\ UNCHANGED <<raced, metaVars, callVars, sseVars>>
    \/ \E i \in 1..MaxWalkSessions :
          /\ MetadataRejects(i)
          /\ UNCHANGED <<raced, metaVars, callVars, sseVars>>
    \/ \E i \in 1..MaxWalkSessions, n \in 0..MaxRecords :
          /\ QueryResolves(i, n)
          /\ UNCHANGED <<raced, metaVars, callVars, sseVars>>
    \/ \E i \in 1..MaxWalkSessions :
          /\ QueryRejects(i)
          /\ UNCHANGED <<raced, metaVars, callVars, sseVars>>
    \/ /\ Tick(1)
       /\ UNCHANGED <<raced, metaVars, callVars, sseVars>>

Spec == Init /\ [][Next]_vars

\* The session store: sessions start, take the inputs of the first steps, end and
\* expire while time passes
NextStore ==
    \/ /\ StartSession(MaxSessions)
       /\ UNCHANGED <<raced, metaVars, callVars, sseVars>>
    \/ \E sid \in SessionIds, input \in StoreInputs :
          /\ Idle(sid)
          /\ ProcessInput(sid, input)
          /\ UNCHANGED <<raced, metaVars, callVars, sseVars>>
    \/ \E i \in 1..MaxSessions :
          /\ MetadataResolves(i)
          /\ UNCHANGED <<raced, metaVars, callVars, sseVars>>
    \/ \E i \in 1..MaxSessions :
          /\ MetadataRejects(i)
          /\ UNCHANGED <<raced, metaVars, callVars, sseVars>>
    \/ \E sid \in SessionIds :
          /\ EndSession(sid)
          /\ UNCHANGED <<raced, metaVars, callVars, sseVars>>
    \/ /\ CleanupExpiredSessions
       /\ UNCHANGED <<raced, metaVars, callVars, sseVars>>
    \/ \E d \in TickSteps :
          /\ Tick(d)
          /\ UNCHANGED <<raced, metaVars, callVars, sseVars>>

SpecStore == Init /\ [][NextStore]_vars

\* The metadata explorer, one operation at a time
NextMeta ==
    \/ \E refresh \in BOOLEAN :
          /\ metaCalls = << >>
          /\ ListEntities(refresh)
          /\ UNCHANGED <<sessions, objs, nextId, pending, last, raced, callVars, sseVars>>
    \/ \E name \in NameInputs, options \in DetailOptions :
          /\ metaCalls = << >>
          /\ GetEntityDetails("getEntityDetails", name, options)
          /\ UNCHANGED <<sessions, objs, nextId, pending, last, raced, callVars, sseVars>>
    \/ \E name \in NameInputs, refresh \in BOOLEAN :
          /\ metaCalls = << >>
          /\ GetEntityDetails("getEntityAttributes", name,
                              [NoOptions EXCEPT !.refresh = refresh])
          /\ UNCHANGED <<sessions, objs, nextId, pending, last, raced, callVars, sseVars>>
    \/ /\ RefreshResolves(1)
       /\ UNCHANGED <<sessions, objs, nextId, pending, last, raced, callVars, sseVars>>
    \/ \E withAttributes \in BOOLEAN :
          /\ LoadResolves(1, withAttributes)
          /\ UNCHANGED <<sessions, objs, nextId, pending, last, raced, callVars, sseVars>>
    \/ /\ LoadResolvesFromCache(1)
       /\ UNCHANGED <<sessions, objs, nextId, pending, last, raced, callVars, sseVars>>
    \/ /\ ConnectorThrows(1)
       /\ UNCHANGED <<sessions, objs, nextId, pending, last, raced, callVars, sseVars>>
    \/ /\ MetaReturns(1)
       /\ UNCHANGED <<sessions, objs, nextId, pending, last, raced, callVars, sseVars>>
    \/ \E d \in MetaTickSteps :
          /\ MetaTick(d)
          /\ UNCHANGED <<sessions, objs, nextId, pending, last, raced, callVars, sseVars>>

SpecMeta == Init /\ [][NextMeta]_vars

\* A forced refresh against a CRM whose schema changes: getEntityDetails alone,
\* one call at a time
NextRefresh ==
    \/ \E name \in NameInputs, options \in DetailOptions :
          /\ metaCalls = << >>
          /\ GetEntityDetails("getEntityDetails", name, options)
          /\ UNCHANGED <<sessions, objs, nextId, pending, last, raced, callVars, sseVars>>
    \/ \E withAttributes \in BOOLEAN :
          /\ LoadResolves(1, withAttributes)
          /\ UNCHANGED <<sessions, objs, nextId, pending, last, raced, callVars, sseVars>>
    \/ /\ LoadResolvesFromCache(1)
       /\ UNCHANGED <<sessions, objs, nextId, pending, last, raced, callVars, sseVars>>
    \/ /\ ConnectorThrows(1)
       /\ UNCHANGED <<sessions, objs, nextId, pending, last, raced, callVars, sseVars>>
    \/ /\ MetaReturns(1)
       /\ UNCHANGED <<sessions, objs, nextId, pending, last, raced, callVars, sseVars>>
    \/ /\ SchemaChanges
       /\ UNCHANGED <<sessions, objs, nextId, pending, last, raced, callVars, sseVars>>

SpecRefresh == Init /\ [][NextRefresh]_vars

\* normalizeEntityName on names, and on what it returned
NextNormalize ==
    \/ \E entityName \in NormalizeInputs :
          /\ Normalize(entityName)
          /\ UNCHANGED <<assistantVars, metaVars, sseVars>>
    \/ /\ NormalizeAgain
       /\ UNCHANGED <<assistantVars, metaVars, sseVars>>

SpecNormalize == Init /\ [][NextNormalize]_vars

\* Commands of ShortCommandService, one at a time, and the connector's answers
NextCommand ==
    \/ \E command \in CommandInputs :
          /\ commandCalls = << >>
          /\ ParseCommand(command)
          /\ UNCHANGED <<assistantVars, sseVars>>
    \/ \E command \in CommandInputs :
          /\ commandCalls = << >>
          /\ ProcessCommand(command)
          /\ UNCHANGED <<assistantVars, sseVars>>
    \/ \E n \in 0..MaxRecords :
          /\ CommandQueryResolves(1, n)
          /\ UNCHANGED <<assistantVars, sseVars>>
    \/ /\ CommandWriteResolves(1)
       /\ UNCHANGED <<assistantVars, sseVars>>
    \/ \E simulated \in BOOLEAN :
          /\ CommandMetadataResolves(1, simulated)
          /\ UNCHANGED <<assistantVars, sseVars>>
    \/ /\ CommandRejects(1)
       /\ UNCHANGED <<assistantVars, sseVars>>

SpecCommand == Init /\ [][NextCommand]_vars

\* parseQuery of NLQueryService on the queries
NextQuery ==
    /\ ParseQuery
    /\ UNCHANGED <<assistantVars, metaVars, sseVars>>

\* processQuery was called with one of the queries
InitQuery == AssistantInit /\ MetaInit /\ SseInit /\ QueryInit

SpecQuery == InitQuery /\ [][NextQuery]_vars

\* One session without the discipline of one step at a time: processInput is
\* called while up to MaxInFlight - 1 earlier calls for the id are suspended
NextRace ==
    \/ /\ StartSession(MaxWalkSessions)
       /\ UNCHANGED <<raced, metaVars, callVars, sseVars>>
    \/ \E sid \in 1..MaxWalkSessions, input \in RaceInputs :
          /\ Cardinality(PendingOf(pending, sid)) < MaxInFlight
          /\ ProcessInput(sid, input)
          /\ raced' = IF Idle(sid) THEN raced ELSE raced \cup {sid}
          /\ UNCHANGED <<metaVars, callVars, sseVars>>
    \/ \E i \in 1..MaxInFlight :
          /\ MetadataResolves(i)
          /\ UNCHANGED <<raced, metaVars, callVars, sseVars>>
    \/ \E i \in 1..MaxInFlight :
          /\ MetadataRejects(i)
          /\ UNCHANGED <<raced, metaVars, callVars, sseVars>>

SpecRace == Init /\ [][NextRace]_vars

\* parseFilterInput of the query assistant on the filter phrases
NextFilter ==
    /\ ParseFilterInput
    /\ UNCHANGED <<assistantVars, metaVars, sseVars>>

InitFilter == AssistantInit /\ MetaInit /\ SseInit /\ FilterInit

SpecFilter == InitFilter /\ [][NextFilter]_vars

\* The filter of a query from the reply at the filter step
NextClause ==
    /\ BuildFilter
    /\ UNCHANGED <<assistantVars, metaVars, sseVars>>

InitClause == AssistantInit /\ MetaInit /\ SseInit /\ ClauseInit

SpecClause == InitClause /\ [][NextClause]_vars

\* The options of a getEntityDetails that asks for the attributes
WithAttributes(refresh) ==
    [ includeAttributes |-> Some(TRUE), includeOptionSets |-> FALSE, refresh |-> refresh ]

\* Operations of the explorer in flight together: listEntities and
\* getEntityDetails(name, {includeAttributes: true}) are called while another
\* operation is suspended, and the suspended operations take up in any order
NextMetaRace ==
    \/ \E refresh \in BOOLEAN :
          /\ Len(metaCalls) < MaxInFlight
          /\ ListEntities(refresh)
          /\ UNCHANGED <<sessions, objs, nextId, pending, last, raced, callVars, sseVars>>
    \/ \E name \in NameInputs, refresh \in BOOLEAN :
          /\ Len(metaCalls) < MaxInFlight
          /\ GetEntityDetails("getEntityDetails", name, WithAttributes(refresh))
          /\ UNCHANGED <<sessions, objs, nextId, pending, last, raced, callVars, sseVars>>
    \/ \E i \in 1..MaxInFlight :
          /\ RefreshResolves(i)
          /\ UNCHANGED <<sessions, objs, nextId, pending, last, raced, callVars, sseVars>>
    \/ \E i \in 1..MaxInFlight :
          /\ LoadResolves(i, TRUE)
          /\ UNCHANGED <<sessions, objs, nextId, pending, last, raced, callVars, sseVars>>
    \/ \E i \in 1..MaxInFlight :
          /\ LoadResolvesFromCache(i)
          /\ UNCHANGED <<sessions, objs, nextId, pending, last, raced, callVars, sseVars>>
    \/ \E i \in 1..MaxInFlight :
          /\ ConnectorThrows(i)
          /\ UNCHANGED <<sessions, objs, nextId, pending, last, raced, callVars, sseVars>>
    \/ \E i \in 1..MaxInFlight :
          /\ MetaReturns(i)
          /\ UNCHANGED <<sessions, objs, nextId, pending, last, raced, callVars, sseVars>>

SpecMetaRace == Init /\ [][NextMetaRace]_vars

\* The SSE server: clients connect, post messages under session ids, close, and
\* the cleanup timer runs while time passes
NextSse ==
    \/ \E sessionId \in TransportIds :
          /\ Connect(sessionId)
          /\ UNCHANGED <<sessions, objs, nextId, pending, last, raced, metaVars, callVars>>
    \/ \E sessionId \in TransportIds :
          /\ Close(sessionId)
          /\ UNCHANGED <<sessions, objs, nextId, pending, last, raced, metaVars, callVars>>
    \/ \E sessionId \in RequestIds, hasBody, altThrows, firstThrows \in BOOLEAN :
          /\ PostMessage(sessionId, hasBody, altThrows, firstThrows)
          /\ UNCHANGED <<sessions, objs, nextId, pending, last, raced, metaVars, callVars>>
    \/ /\ cleanupInactiveSessions
       /\ UNCHANGED <<sessions, objs, nextId, pending, last, raced, metaVars, callVars>>
    \/ \E d \in {1, MAX_SESSION_IDLE_TIME_MS} :
          /\ SseTick(d)
          /\ UNCHANGED <<sessions, objs, nextId, pending, last, raced, metaVars, callVars>>

SpecSse == Init /\ [][NextSse]_vars

---------------------------------------------------------------------------
(* The properties checked.                                                 *)

\* What the step handlers set of a session: all of it but startTime and
\* lastActivity
Accumulated(s) ==
    << s.currentStep, s.entity, s.action, s.filter, s.fields, s.orderBy, s.limit,
       s.completed >>

\* processInput returned, to the caller of session sid, completed:false and no result
ReturnsNotCompleted(r, sid) ==
    /\ r.op = "processInput"
    /\ r.sid = sid
    /\ r.completed = FALSE
    /\ r.result = None

\* The texts of the full walk, and the session after the first k of them
WalkTexts ==
    << <<"C", "o", "n", "t", "a", "s">>, <<"l", "i", "s", "t", "a", "r">>, <<"n", "a_tilde", "o">>, <<"t", "o", "d", "o", "s">>, <<"p", "a", "d", "r", "a_tilde", "o">>, <<"p", "a", "d", "r", "a_tilde", "o">>, <<" ", "S", "i", "m">> >>
WalkSteps ==
    << "entity", "action", "filter", "fields", "orderBy", "limit", "confirm", "confirm" >>
OnWalk(k, s) ==
    /\ s.currentStep = WalkSteps[k + 1]
    /\ s.completed = (k = 7)
    /\ IF k >= 1 THEN IsSome(s.entity) /\ Get(s.entity) \in ConnectorEntities
       ELSE s.entity = None
    /\ s.action = IF k >= 2 THEN Some("list") ELSE None
    /\ s.filter = IF k >= 3 THEN Some(<< >>) ELSE None
    /\ s.fields = None
    /\ s.orderBy = IF k >= 5 THEN Some(<<"c", "r", "e", "a", "t", "e", "d", "o", "n", " ", "d", "e", "s", "c">>) ELSE None
    /\ s.limit = IF k >= 6 THEN Some(50) ELSE None

\* The first text of the walk is sent: the connector is asked for the entity
WalkEntitySent(sid) ==
    OnWalk(0, objs[sid]) /\ ProcessInput(sid, WalkTexts[1])
    => /\ OnWalk(0, objs'[sid])
       /\ last'.op = "await"
       /\ Len(pending') = Len(pending) + 1
       /\ pending'[Len(pending')].sid = sid
       /\ pending'[Len(pending')].kind = "getEntityMetadata"
       /\ pending'[Len(pending')].entity \in ConnectorEntities
\* The connector accepts the entity
WalkEntityAccepted(i) ==
    /\ pending[i].kind = "getEntityMetadata"
    /\ OnWalk(0, objs[pending[i].sid])
    /\ MetadataResolves(i)
    => /\ OnWalk(1, objs'[pending[i].sid])
       /\ ReturnsNotCompleted(last', pending[i].sid)
\* The second to the sixth text of the walk
WalkStepTaken(sid, k) ==
    OnWalk(k - 1, objs[sid]) /\ ProcessInput(sid, WalkTexts[k])
    => /\ OnWalk(k, objs'[sid])
       /\ ReturnsNotCompleted(last', sid)
       /\ pending' = pending
\* The seventh text of the walk is sent: the connector is asked for the records
WalkConfirmSent(sid) ==
    OnWalk(6, objs[sid]) /\ ProcessInput(sid, WalkTexts[7])
    => /\ OnWalk(6, objs'[sid])
       /\ last'.op = "await"
       /\ pending' = Append(pending,
                            QueryCall(sid, Get(objs[sid].entity), "list", << >>, None,
                                      Some(<<"c", "r", "e", "a", "t", "e", "d", "o", "n", " ", "d", "e", "s", "c">>), Some(50)))
\* The connector answers the query
WalkQueryAnswered(i, n) ==
    /\ pending[i].kind = "queryEntities"
    /\ OnWalk(6, objs[pending[i].sid])
    /\ QueryResolves(i, n)
    => /\ OnWalk(7, objs'[pending[i].sid])
       /\ last'.op = "processInput"
       /\ last'.sid = pending[i].sid
       /\ last'.completed = TRUE
       /\ IsSome(last'.result)

\* C1: in a session startSession made, the texts <valid entity>, <list synonym>,
\* <no-filter synonym>, 'todos', 'padrao', 'padrao', <affirmative>, the connector
\* accepting the entity and answering the query, take the session from step to
\* step; every processInput before the seventh returns completed:false, and the
\* seventh returns completed:true with a result that is not null.
C1_FullWalkCompletes ==
    [][ /\ \A sid \in sessions :
             /\ WalkEntitySent(sid)
             /\ \A k \in 2..6 : WalkStepTaken(sid, k)
             /\ WalkConfirmSent(sid)
        /\ \A i \in DOMAIN pending :
             /\ WalkEntityAccepted(i)
             /\ \A n \in 0..MaxRecords : WalkQueryAnswered(i, n)
      ]_vars

\* The walk has ended: its seventh processInput returned completed:true and a result
C1_WalkCompleted ==
    /\ last.op = "processInput"
    /\ last.completed
    /\ IsSome(last.result)
    /\ last.sid \in sessions
    /\ OnWalk(7, objs[last.sid])

\* The texts the handler of each step rejects (the entity step apart, where the
\* connector decides; at the filter step, when the action is not get)
Unrecognized ==
    [ step \in {"action", "filter", "orderBy", "limit", "confirm"} |->
        { input \in WalkInputs :
            LET text == toLowerCase(trim(input))
            IN  CASE step = "action" ->
                       text \notin ActionListWords \cup ActionGetWords \cup ActionCountWords
                  [] step = "filter" ->
                       text \notin NoFilterWords /\ parseFilterInput(text) = None
                  [] step = "orderBy" ->
                       text \notin DefaultOrderWords /\ parseOrderByInput(text) = None
                  [] step = "limit" ->
                       /\ text \notin DefaultLimitWords
                       /\ parseInt(text) = None \/ Get(parseInt(text)) <= 0
                  [] OTHER ->
                       text \notin AffirmativeWords \cup NegativeWords } ]
RejectedInput(s, input) ==
    /\ s.currentStep \in DOMAIN Unrecognized
    /\ input \in Unrecognized[s.currentStep]
    /\ s.currentStep = "filter" => s.action # Some("get")

\* C2: when the handler of the current step rejects the input (the connector does
\* not validate the entity, the action is not recognized, the filter phrase does
\* not parse and the action is not get, the order does not parse, the limit is no
\* positive number, the reply to the confirmation is neither yes nor no),
\* processInput returns completed:false and leaves currentStep, entity, action,
\* filter, fields, orderBy, limit and completed of the session as they were; only
\* lastActivity changes.
C2_RejectedInputKeepsState ==
    [][ /\ \A sid \in sessions, input \in WalkInputs :
             /\ RejectedInput(objs[sid], input) /\ ProcessInput(sid, input)
                => /\ ReturnsNotCompleted(last', sid)
                   /\ Accumulated(objs'[sid]) = Accumulated(objs[sid])
                   /\ objs'[sid] = [objs[sid] EXCEPT !.lastActivity = now]
                   /\ pending' = pending
             /\ objs[sid].currentStep = "entity" /\ ProcessInput(sid, input)
                => objs'[sid] = [objs[sid] EXCEPT !.lastActivity = now]
        /\ \A i \in DOMAIN pending :
             pending[i].kind = "getEntityMetadata" /\ MetadataRejects(i)
             => /\ ReturnsNotCompleted(last', pending[i].sid)
                /\ objs'[pending[i].sid] = objs[pending[i].sid]
      ]_vars

\* A text was rejected in a session that had come as far as the limit, after
\* it had been idle
C2_LimitRejected ==
    /\ last.op = "processInput"
    /\ last.message = "limit_invalid"
    /\ last.sid \in sessions
    /\ objs[last.sid].currentStep = "limit"
    /\ IsSome(objs[last.sid].orderBy)
    /\ objs[last.sid].lastActivity > objs[last.sid].startTime

\* C3: processInput with a session id the store does not hold (never started,
\* ended by endSession, or removed by the sweep) returns the 'session not found'
\* message with completed:false, throws nothing, calls no connector operation and
\* neither creates nor changes a session.
C3_UnknownSessionNotFound ==
    [][ \A sid \in SessionIds, input \in StoreInputs :
          sid \notin sessions /\ ProcessInput(sid, input)
          => /\ ReturnsNotCompleted(last', sid)
             /\ last'.message = "session_not_found"
             /\ sessions' = sessions
             /\ objs' = objs
             /\ pending' = pending
      ]_vars

\* processInput did not find a session that had been started, while another
\* session is in the store
C3_NotFoundAfterRemoval ==
    /\ last.op = "processInput"
    /\ last.message = "session_not_found"
    /\ last.sid < nextId
    /\ last.sid \notin sessions
    /\ sessions # {}

ThirtyMinutes == 30 * 60 * 1000

\* C4: a run of the sweep removes exactly the sessions whose lastActivity is more
\* than 30 minutes before the time of the sweep, whatever their step or completed
\* flag, and leaves every other session of the store as it was.
C4_SweepRemovesExactlyExpired ==
    [][ last'.op = "cleanupExpiredSessions"
        => /\ sessions' = { id \in sessions : now - objs[id].lastActivity <= ThirtyMinutes }
           /\ \A id \in sessions' : objs'[id] = objs[id]
      ]_vars

\* A sweep has run that removed a session and kept one that had been idle for 30
\* minutes to the millisecond
C4_SweptAtTheWindow ==
    /\ last.op = "cleanupExpiredSessions"
    /\ last.result = Some(1)
    /\ \E id \in sessions : now - objs[id].lastActivity = ThirtyMinutes

\* C5: after a successful affirmative reply in the confirm step the session is
\* completed and terminal: every later processInput on that session id leaves
\* currentStep and the accumulated fields as they were, never sets completed back
\* to false, and asks the connector for no further query.
C5_CompletedIsTerminal ==
    [][ \A sid \in sessions :
          objs[sid].completed /\ sid \in sessions'
          => /\ Accumulated(objs'[sid]) = Accumulated(objs[sid])
             /\ \A i \in DOMAIN pending' :
                  pending'[i].sid = sid => i \in DOMAIN pending /\ pending[i] = pending'[i]
      ]_vars

\* C6: a negative reply in the confirm step sets currentStep to entity and clears
\* entity, action, filter, fields, orderBy and limit of the session, keeps the
\* session in the store under its id, calls no connector operation and returns
\* completed:false.
C6_NegativeConfirmResets ==
    [][ \A sid \in sessions, input \in WalkInputs :
          /\ objs[sid].currentStep = "confirm"
          /\ toLowerCase(trim(input)) \in NegativeWords
          /\ ProcessInput(sid, input)
          => /\ objs'[sid].currentStep = "entity"
             /\ objs'[sid].entity = None
             /\ objs'[sid].action = None
             /\ objs'[sid].filter = None
             /\ objs'[sid].fields = None
             /\ objs'[sid].orderBy = None
             /\ objs'[sid].limit = None
             /\ sessions' = sessions
             /\ pending' = pending
             /\ ReturnsNotCompleted(last', sid)
      ]_vars

\* The query of a session was cancelled: the session is in the store, back at the
\* entity step with nothing accumulated
C6_Cancelled ==
    /\ last.op = "processInput"
    /\ last.message = "query_cancelled"
    /\ last.sid \in sessions
    /\ objs[last.sid].currentStep = "entity"
    /\ objs[last.sid].entity = None
    /\ objs[last.sid].limit = None

\* The query call i fails: the connector throws, or a get finds no record
QueryFails(i) ==
    \/ QueryRejects(i)
    \/ pending[i].action = "get" /\ QueryResolves(i, 0)

C8_PartialEntryIsReloaded ==
    [][ /\ \A name \in NameInputs, options \in DetailOptions :
             /\ Truthy(options.includeAttributes)
             /\ now - cache.lastUpdated <= cacheExpirationMs
             /\ normalizeEntityName(name) \in DOMAIN cache.entities
             /\ Len(cache.entities[normalizeEntityName(name)].attributes) = 0
             /\ GetEntityDetails("getEntityDetails", name, options)
             => /\ metaLast'.status = "await"
                /\ Len(metaCalls') = Len(metaCalls) + 1
                /\ metaCalls'[Len(metaCalls')].stage = "connector"
        /\ \A i \in DOMAIN metaCalls :
             /\ metaCalls[i].op = "getEntityDetails"
             /\ Truthy(metaCalls[i].options.includeAttributes)
             /\ metaCalls[i].stage = "loaded"
             /\ MetaReturns(i)
             => /\ metaLast'.status = "ok"
                /\ IsSome(metaLast'.entity)
                /\ Len(Get(metaLast'.entity).attributes) > 0
      ]_vars

\* getEntityDetails with includeAttributes alone is suspended on the connector
\* while the cache has not expired and holds the entity without attributes
C8_ReloadingPartialEntry ==
    /\ metaCalls # << >>
    /\ metaCalls[1].op = "getEntityDetails"
    /\ metaCalls[1].stage = "connector"
    /\ metaCalls[1].options =
          [ includeAttributes |-> Some(TRUE), includeOptionSets |-> FALSE,
            refresh |-> FALSE ]
    /\ now - cache.lastUpdated <= cacheExpirationMs
    /\ normalizeEntityName(metaCalls[1].name) \in DOMAIN cache.entities
    /\ Len(cache.entities[normalizeEntityName(metaCalls[1].name)].attributes) = 0

\* C9: getEntityAttributes(entity) returns all the attributes of the entity: for
\* every state of the cache before the call (empty, a bare entry of an entity-list
\* refresh, expired), the list it returns is not empty when the document of the
\* connector for the entity holds attributes.
C9_AttributesReturned ==
    metaLast.op = "getEntityAttributes" /\ metaLast.status = "ok"
    => Len(metaLast.attributes) > 0

\* C10: when the connector call of an entity-list refresh fails, listEntities
\* fails with an error and the cache is as it was before the call: the entity map
\* and the time of the last refresh are unchanged.
C10_FailedRefreshKeepsCache ==
    [][ \A i \in DOMAIN metaCalls :
          metaCalls[i].op = "listEntities"
          => /\ /\ metaCalls[i].stage = "connector"
                /\ i \in DOMAIN metaCalls'
                /\ metaCalls'[i].stage = "failed"
                => cache' = cache
             /\ /\ metaCalls[i].stage = "failed"
                /\ Len(metaCalls') < Len(metaCalls)
                => /\ metaLast'.op = "listEntities"
                   /\ metaLast'.status = "error"
                   /\ cache' = cache
      ]_vars

\* listEntities failed while the cache held entities: they are still there
C10_FailedWithEntriesCached ==
    /\ metaLast.op = "listEntities"
    /\ metaLast.status = "error"
    /\ DOMAIN cache.entities # {}
    /\ cache.lastUpdated > 0

\* C11: getEntityDetails(name, {refresh: true}) returns a record built from the
\* schema the CRM holds during the call: the display name of the record it returns
\* is the label the CRM holds for the entity now, whatever was fetched and cached
\* before the call.
C11_RefreshReturnsRemoteSchema ==
    [][ \A i \in DOMAIN metaCalls :
          /\ metaCalls[i].op = "getEntityDetails"
          /\ metaCalls[i].options.refresh
          /\ metaCalls[i].stage = "loaded"
          /\ MetaReturns(i)
          => /\ metaLast'.status = "ok"
             /\ Get(metaLast'.entity).displayName =
                   FirstOf(RemoteEntity(normalizeEntityName(metaCalls[i].name)).Label,
                           RemoteEntity(normalizeEntityName(metaCalls[i].name)).SchemaName)
      ]_vars

\* C12: normalizeEntityName is idempotent, normalize(normalize(x)) = normalize(x)
\* for every name x, and normalize('cases') = normalize('case') = 'incident'.
C12_NormalizeIdempotent ==
    applied.fn = "normalizeEntityName"
    => /\ normalizeEntityName(returned) = returned
       /\ applied.arg \in { <<"c", "a", "s", "e">>, <<"c", "a", "s", "e", "s">> } => returned = <<"i", "n", "c", "i", "d", "e", "n", "t">>

\* The first token of a command, and how many colons it holds
FirstToken(command) ==
    IF trim(command) = << >> THEN << >>
    ELSE SubSeq(trim(command), 1,
                IF SpaceFrom(trim(command), 1) = 0 THEN Len(trim(command))
                ELSE SpaceFrom(trim(command), 1) - 1)
Colons(token) == Len(SelectSeq(token, LAMBDA c : c = ":"))
NotOnePair(command) == Colons(FirstToken(command)) # 1

\* C13: when the first token of the command is not exactly one 'entity:action'
\* pair (no colon, more than one colon, or an empty command), parseCommand gives
\* entity = null, action = null and params = {}, and processCommand returns
\* success:false with the format message and calls no operation of the connector.
C13_MalformedCommandIsFormatError ==
    [][ \A command \in CommandInputs :
          /\ applied'.arg = command
          /\ NotOnePair(command)
          => /\ ParseCommand(command)
                => returned' = ParsedCommand(None, None, << >>)
             /\ ProcessCommand(command)
                => /\ returned'.success = FALSE
                   /\ returned'.message = "invalid_format"
                   /\ commandCalls' = commandCalls
      ]_vars

\* processCommand answered a command with two colons in its first token
C13_MalformedRejected ==
    /\ applied = Call("processCommand", <<"a", ":", "b", ":", "c">>)
    /\ returned.success = FALSE
    /\ returned.message = "invalid_format"
    /\ commandCalls = << >>

\* The tokens of a command after the first, and the tokens key=value among them
Tokens(command) == splitSpaces(trim(command))
Equals(token) == Len(SelectSeq(token, LAMBDA c : c = "="))
KeyOf(token) == SubSeq(token, 1, indexOf(token, "=") - 1)
TextOf(token) == SubSeq(token, indexOf(token, "=") + 1, Len(token))
\* The value the claim gives a text: the boolean, the number, or the text itself
Coerced(text) ==
    IF text = <<"t", "r", "u", "e">> THEN BooleanValue(TRUE)
    ELSE IF text = <<"f", "a", "l", "s", "e">> THEN BooleanValue(FALSE)
    ELSE IF text # << >> /\ IsSome(StringToNumber(text))
    THEN NumberValue(Get(StringToNumber(text)))
    ELSE StringValue(text)

\* C14: for every key=value token after the entity:action token (the last one of
\* its key), params holds key with the boolean when the value is 'true' or
\* 'false', with the number when the value is a numeral, and with the text itself
\* otherwise; a first parameter without '=' is kept as the string params.id.
C14_ParametersCoerced ==
    /\ applied.fn = "parseCommand"
    /\ IsSome(returned.entity)
    => /\ \A i \in 2..Len(Tokens(applied.arg)) :
             /\ Equals(Tokens(applied.arg)[i]) = 1
             /\ \A j \in (i + 1)..Len(Tokens(applied.arg)) :
                    Equals(Tokens(applied.arg)[j]) = 1
                    => KeyOf(Tokens(applied.arg)[j]) # KeyOf(Tokens(applied.arg)[i])
             => GetParam(returned.params, KeyOf(Tokens(applied.arg)[i]))
                   = Some(Coerced(TextOf(Tokens(applied.arg)[i])))
       /\ /\ Len(Tokens(applied.arg)) > 1
          /\ Equals(Tokens(applied.arg)[2]) = 0
          /\ \A j \in 3..Len(Tokens(applied.arg)) :
                 Equals(Tokens(applied.arg)[j]) = 1
                 => KeyOf(Tokens(applied.arg)[j]) # <<"i", "d">>
          => GetParam(returned.params, <<"i", "d">>) = Some(StringValue(Tokens(applied.arg)[2]))

\* The clause the wildcard rule gives a parameter with a text value
Leading(text) == Len(text) > 0 /\ text[1] = "*"
Trailing(text) == Len(text) > 0 /\ text[Len(text)] = "*"
Starless(text) == SelectSeq(text, LAMBDA c : c # "*")
WildcardClause(key, text) ==
    IF Leading(text) /\ Trailing(text)
    THEN <<"c", "o", "n", "t", "a", "i", "n", "s", "(">> \o key \o <<",", " ", "'">> \o Starless(text) \o <<"'", ")">>
    ELSE IF Trailing(text)
    THEN <<"s", "t", "a", "r", "t", "s", "w", "i", "t", "h", "(">> \o key \o <<",", " ", "'">> \o Starless(text) \o <<"'", ")">>
    ELSE IF Leading(text)
    THEN <<"e", "n", "d", "s", "w", "i", "t", "h", "(">> \o key \o <<",", " ", "'">> \o Starless(text) \o <<"'", ")">>
    ELSE key \o <<" ", "e", "q", " ", "'">> \o text \o <<"'">>
RECURSIVE WildcardClauses(_)
WildcardClauses(params) ==
    IF Len(params) = 0 THEN << >>
    ELSE << WildcardClause(Head(params)[1], Head(params)[2].str) >>
         \o WildcardClauses(Tail(params))

\* The parameters of a command outside the reserved set
ReservedKeys ==
    { <<"t", "o", "p">>, <<"l", "i", "m", "i", "t">>, <<"o", "r", "d", "e", "r", "B", "y">>, <<"o", "r", "d", "e", "r">>, <<"s", "e", "l", "e", "c", "t">>, <<"f", "i", "e", "l", "d", "s">>, <<"e", "x", "p", "a", "n", "d">> }
Unreserved(command) ==
    SelectSeq(parseCommand(command).params, LAMBDA p : p[1] \notin ReservedKeys)
\* A list command whose parameters outside the reserved set are all texts, with
\* '*' at their ends only
IsAction(command, words) ==
    /\ ~Missing(parseCommand(command).entity)
    /\ ~Missing(parseCommand(command).action)
    /\ toLowerCase(Get(parseCommand(command).action)) \in words
ListsByText(command) ==
    /\ IsAction(command, { <<"l", "i", "s", "t">>, <<"l", "s">> })
    /\ \A i \in DOMAIN Unreserved(command) :
          /\ Unreserved(command)[i][2].type = "string"
          /\ \/ ~includes(Unreserved(command)[i][2].str, "*")
             \/ Leading(Unreserved(command)[i][2].str)
             \/ Trailing(Unreserved(command)[i][2].str)
\* The filter the command built and passed to the connector is the one the
\* wildcard rule gives (it passes none when select or expand is no text)
FilterByRule(command) ==
    commandCalls' # commandCalls
    => /\ Len(commandCalls') = Len(commandCalls) + 1
       /\ commandCalls'[Len(commandCalls')].op = "queryEntities"
       /\ commandCalls'[Len(commandCalls')].filter =
             OrUndefined(join(WildcardClauses(Unreserved(command)), <<" ", "a", "n", "d", " ">>))

LacksId(command) == \A i \in DOMAIN parseCommand(command).params :
                       parseCommand(command).params[i][1] # <<"i", "d">>
LacksFields(command) == \A i \in DOMAIN parseCommand(command).params :
                           parseCommand(command).params[i][1] = <<"i", "d">>
GetWords == { <<"g", "e", "t">>, <<"s", "h", "o", "w">>, <<"v", "i", "e", "w">> }
CreateWords == { <<"c", "r", "e", "a", "t", "e">>, <<"n", "e", "w">>, <<"a", "d", "d">> }
UpdateWords == { <<"u", "p", "d", "a", "t", "e">>, <<"e", "d", "i", "t">>, <<"m", "o", "d">> }
DeleteWords == { <<"d", "e", "l", "e", "t", "e">>, <<"d", "e", "l">>, <<"r", "m">> }
\* The messages that name a missing id, a missing field
NeedsIdCauses == {"get_needs_id", "update_needs_id", "delete_needs_id"}
NeedsFieldCauses == {"create_needs_field", "update_needs_field"}

\* C16: get, update and delete without params.id, and create or update without a
\* field other than id, make processCommand return success:false with a message
\* that names what is missing, and no operation of the connector is called.
C16_MissingPreconditionIsReported ==
    [][ \A command \in CommandInputs :
          /\ applied'.arg = command
          /\ ProcessCommand(command)
          => /\ /\ IsAction(command, GetWords \cup UpdateWords \cup DeleteWords)
                /\ LacksId(command)
                => /\ returned'.success = FALSE
                   /\ returned'.cause \in NeedsIdCauses
                   /\ commandCalls' = commandCalls
             /\ /\ IsAction(command, CreateWords \cup UpdateWords)
                /\ LacksFields(command)
                => /\ returned'.success = FALSE
                   /\ returned'.cause \in NeedsIdCauses \cup NeedsFieldCauses
                   /\ commandCalls' = commandCalls
      ]_vars

\* An update with an id and no field was refused
C16_UpdateWithoutFieldRefused ==
    /\ applied = Call("processCommand", <<"a", "c", "c", "o", "u", "n", "t", ":", "u", "p", "d", "a", "t", "e", " ", "1", "2", "3">>)
    /\ returned.success = FALSE
    /\ returned.cause = "update_needs_field"
    /\ commandCalls = << >>

\* C17: the filter the count action passes to the connector is the filter the
\* list action builds from the same parameters (both leave out top, limit,
\* orderBy, order, select, fields and expand), and count asks for top = 1000 and
\* one selected field.
C17_CountFiltersAsList ==
    [][ \A command \in CommandInputs :
          /\ applied'.arg = command
          /\ IsAction(command, { <<"c", "o", "u", "n", "t">> })
          /\ ProcessCommand(command)
          => /\ Len(commandCalls') = Len(commandCalls) + 1
             /\ commandCalls'[Len(commandCalls')].filter =
                   OrUndefined(ListFilter(Get(parseCommand(command).entity),
                                          parseCommand(command).params))
             /\ commandCalls'[Len(commandCalls')].top = Some(NumberValue(1000))
             /\ Len(Get(commandCalls'[Len(commandCalls')].select)) = 1
      ]_vars

\* C18: when the connector returns a schema document with attributes, the fields
\* action returns success:true with one descriptor for each attribute of the
\* document.
C18_FieldsListsAttributes ==
    [][ \A simulated \in BOOLEAN :
          /\ commandCalls # << >>
          /\ CommandMetadataResolves(1, simulated)
          => /\ returned'.success
             /\ Len(returned'.fields)
                   = Len(SchemaDocument(commandCalls[1].entity).Attributes)
             /\ \A k \in DOMAIN returned'.fields :
                   returned'.fields[k].name
                     = SchemaDocument(commandCalls[1].entity).Attributes[k].LogicalName
      ]_vars

\* The words of the query that parseQuery scans
QueryWordsOf(call) == WordsOf(normalizeText(call.arg))
\* A token that is a positive integer in decimal digits
IsPositiveInteger(word) == IsNumeral(word) /\ DecimalValue(word) > 0
\* The places of the query where a limit word has a positive integer right after it
LimitPairs(words) ==
    { k \in 1..(Len(words) - 1) :
        words[k] \in LimitWords /\ IsPositiveInteger(words[k + 1]) }
\* The limit word at place k does not come right after a word of operatorMappings
NotAfterOperator(words, k) ==
    k = 1 \/ Lookup(operatorMappings, words[k - 1]) = None
\* Both words of the pair at place k were taken by the limit rule
TakenByLimitRule(rules, k) == rules[k] = "limit" /\ rules[k + 1] = "limit"

ReadAsLimit(words) ==
    { k \in 1..(Len(words) - 1) :
        /\ words[k] \in LimitWords
        /\ parseInt(words[k + 1]) # None
        /\ Get(parseInt(words[k + 1])) > 0 }

OthersKept(sid) ==
    \A other \in sessions \ {sid} : other \in sessions' /\ objs'[other] = objs[other]
\* What processInput(sid, input) stores and answers is what the handler of the
\* step makes of the session stored under sid alone
OwnSessionOnly(sid, input) ==
    sid \in sessions
    => LET out == StepHandler(sid, [objs[sid] EXCEPT !.lastActivity = now], input)
       IN  /\ objs'[sid] = out.session
           /\ IsSome(out.message) => last'.message = Get(out.message)

\* C20: startSession, processInput(s, ...) (up to its await and after it) and
\* endSession(s) leave every session stored under another id than s in the Map
\* with the state it had; startSession adds one id, processInput adds and
\* removes none and works on the session of s alone, endSession(s) removes s
\* only; whatever steps of other sessions come in between.
C20_SessionsIndependent ==
    [][ /\ StartSession(MaxSessions)
           => /\ OthersKept(nextId)
              /\ sessions' = sessions \cup {nextId}
        /\ \A sid \in SessionIds :
              /\ \A input \in StoreInputs :
                    Idle(sid) /\ ProcessInput(sid, input)
                    => /\ OthersKept(sid)
                       /\ sessions' = sessions
                       /\ OwnSessionOnly(sid, input)
              /\ EndSession(sid)
                    => /\ OthersKept(sid)
                       /\ sessions' = sessions \ {sid}
        /\ \A i \in 1..MaxSessions :
              MetadataResolves(i) \/ MetadataRejects(i)
              => /\ OthersKept(pending[i].sid)
                 /\ sessions' = sessions
      ]_vars

\* Session 1 took an input while session 2, still at its first step, waits for
\* the connector
C20_TwoSessionsInterleaved ==
    /\ {1, 2} \subseteq sessions
    /\ \E i \in DOMAIN pending : pending[i].sid = 2
    /\ last.op = "processInput"
    /\ last.sid = 1
    /\ objs[1].currentStep # "entity"
    /\ objs[2].currentStep = "entity"

\* The changes of currentStep the handlers may make, by the action of the session
\* after the change
StepChanges(action) ==
    { <<"entity", "action">>, <<"action", "filter">>, <<"filter", "fields">>,
      <<"orderBy", "limit">>, <<"limit", "confirm">>, <<"confirm", "entity">> }
    \cup (IF action \in {Some("get"), Some("count")} THEN { <<"fields", "confirm">> }
          ELSE {})
    \cup (IF action = Some("list") THEN { <<"fields", "orderBy">> } ELSE {})

\* C21: with one step of a session in flight at a time, every step of the program
\* leaves currentStep as it is or makes one change of: entity to action, action to
\* filter, filter to fields, fields to confirm (action get or count), fields to
\* orderBy (action list), orderBy to limit, limit to confirm, and confirm to
\* entity, which only a negative reply makes.
C21_StepOrder ==
    [][ \A sid \in DOMAIN objs \cap DOMAIN objs' :
          objs'[sid].currentStep # objs[sid].currentStep
          => /\ << objs[sid].currentStep, objs'[sid].currentStep >>
                  \in StepChanges(IF objs[sid].currentStep = "confirm"
                                  THEN None ELSE objs'[sid].action)
             /\ objs[sid].currentStep = "confirm" => last'.message = "query_cancelled"
      ]_vars

\* The fields step of a get went to the confirmation
C21_GetConfirmsAfterFields ==
    /\ 1 \in sessions
    /\ objs[1].currentStep = "confirm"
    /\ objs[1].action = Some("get")
    /\ objs[1].orderBy = None
    /\ last.message = "fields_defined_summary"

\* C22: with one step of a session in flight at a time, in every session: entity
\* is set exactly when currentStep is not entity; action is set exactly when
\* currentStep is filter, fields, orderBy, limit or confirm; the filter map is
\* set exactly when currentStep is fields, orderBy, limit or confirm; orderBy is
\* set only when currentStep is limit or confirm; limit only when it is confirm.
C22_FieldsFollowSteps ==
    \A sid \in DOMAIN objs :
        /\ objs[sid].entity # None <=> objs[sid].currentStep # "entity"
        /\ objs[sid].action # None
              <=> objs[sid].currentStep \in {"filter", "fields", "orderBy", "limit", "confirm"}
        /\ objs[sid].filter # None
              <=> objs[sid].currentStep \in {"fields", "orderBy", "limit", "confirm"}
        /\ objs[sid].orderBy # None => objs[sid].currentStep \in {"limit", "confirm"}
        /\ objs[sid].limit # None => objs[sid].currentStep = "confirm"

\* A list is at its limit step: the order is set, the limit is not
C22_AtLimitStep ==
    /\ 1 \in sessions
    /\ objs[1].currentStep = "limit"
    /\ objs[1].entity # None /\ objs[1].action = Some("list")
    /\ objs[1].filter = Some(<< >>)
    /\ objs[1].orderBy # None /\ objs[1].limit = None

\* The session is back at the action step with its action and its filter set
BackAtAction(sid) ==
    /\ objs[sid].currentStep = "action"
    /\ objs[sid].action # None
    /\ objs[sid].filter # None

\* C23: a session is at the action step with action and filter already set only
\* when processInput was called for its id while another call for the id was
\* suspended on the connector: with one step in flight at a time the state is
\* not reached.  (That it is reached with two calls in flight is
\* C23_StepWentBackwards.)
C23_BackwardsOnlyByRace ==
    \A sid \in DOMAIN objs : BackAtAction(sid) => sid \in raced

\* With a second call suspended at the entity step while the session went on to
\* the fields step, the late answer of the connector put the session back at the
\* action step; no reply was negative at the confirmation
C23_StepWentBackwards ==
    /\ 1 \in sessions
    /\ BackAtAction(1)
    /\ 1 \in raced
    /\ pending = << >>
    /\ last.message = "entity_selected"

\* C24: when a session was removed (endSession or the sweep) while a step of it
\* is suspended on the connector, the step completes with its usual reply, it
\* does not put the session back into the store, and a processInput for the id
\* that comes after the removal returns 'session not found' with completed:false.
C24_RemovedDuringStep ==
    [][ /\ \A i \in DOMAIN pending :
              /\ pending[i].sid \notin sessions
              /\ MetadataResolves(i) \/ MetadataRejects(i)
              => /\ ReturnsNotCompleted(last', pending[i].sid)
                 /\ last'.message \in {"entity_selected", "entity_not_recognized"}
                 /\ sessions' = sessions
        /\ \A sid \in SessionIds, input \in StoreInputs :
              /\ sid < nextId
              /\ sid \notin sessions
              /\ ProcessInput(sid, input)
              => /\ ReturnsNotCompleted(last', sid)
                 /\ last'.message = "session_not_found"
                 /\ sessions' = sessions
                 /\ pending' = pending
      ]_vars

\* The entity step of a session that was removed while the step waited for the
\* connector has completed, and the store does not hold the session
C24_StepCompletedAfterRemoval ==
    /\ last.op = "processInput"
    /\ last.message = "entity_selected"
    /\ last.sid \notin sessions
    /\ last.sid < nextId
    /\ Idle(last.sid)

\* C25: for every phrase of operatorMappings, of one word or of several, with its
\* operator, the query 'listar contas nome <phrase> x' is parsed to the one filter
\* nome -> {operator, value: 'x'}.
C25_PhraseGivesItsOperator ==
    \A k \in DOMAIN operatorMappings :
        /\ applied = Call("processQuery", PhraseQuery(k))
        /\ returned # << >>
        => returned.filters =
             << << <<"n", "o", "m", "e">>, [ operator |-> operatorMappings[k][2], value |-> <<"x">> ] >> >>

\* The operator each phrase of the claim stands for
PhraseOperators ==
    << << <<" ", ">", "=", " ">>, op_ge >>, << <<" ", "m", "a", "i", "o", "r", " ", "o", "u", " ", "i", "g", "u", "a", "l", " ", "a", " ">>, op_ge >>, << <<" ", "<", "=", " ">>, op_le >>,
       << <<" ", "m", "e", "n", "o", "r", " ", "o", "u", " ", "i", "g", "u", "a", "l", " ", "a", " ">>, op_le >>, << <<" ", "!", "=", " ">>, op_ne >>, << <<" ", ">", " ">>, op_gt >>,
       << <<" ", "<", " ">>, op_lt >>, << <<" ", "=", " ">>, op_eq >>, << <<" ", "i", "g", "u", "a", "l", " ", "a", " ">>, op_eq >> >>

\* C26: every phrase gives its own operator on the field with the value: 'F >= V'
\* and 'F maior ou igual a V' give ge, 'F <= V' and 'F menor ou igual a V' give
\* le, 'F != V' gives ne, 'F > V' gives gt, 'F < V' gives lt, 'F = V' and
\* 'F igual a V' give eq; no earlier pattern of another operator takes the phrase.
C26_PhraseKeepsItsOperator ==
    \A field \in FilterFields, value \in {<<"5">>, <<"x">>}, k \in DOMAIN PhraseOperators :
        /\ applied = Call("parseFilterInput", field \o PhraseOperators[k][1] \o value)
        /\ returned # << >>
        => returned[1] = Some(<< FilterEntry(field, TRUE, PhraseOperators[k][2], value) >>)

\* The singular of the name of an entity: opportunity for opportunities, account
\* for accounts
SingularName(entity) ==
    IF endsWith(entity, <<"i", "e", "s">>) THEN SubSeq(entity, 1, Len(entity) - 3) \o <<"y">>
    ELSE IF endsWith(entity, <<"s">>) THEN SubSeq(entity, 1, Len(entity) - 1)
    ELSE entity
\* The id a reply at the filter step gives: the whole reply of a get, the value
\* of the phrase 'id = <v>' of a list or a count
IdReplies ==
    { [ action |-> "get", input |-> <<"1", "2", "3">>, id |-> <<"1", "2", "3">> ],
      [ action |-> "list", input |-> <<"i", "d", " ", "=", " ", "1", "2", "3">>, id |-> <<"1", "2", "3">> ],
      [ action |-> "count", input |-> <<"i", "d", " ", "=", " ", "1", "2", "3">>, id |-> <<"1", "2", "3">> ],
      [ action |-> "list", input |-> <<"i", "d", "=", "5">>, id |-> <<"5">> ] }

\* C27: the filter built for a record id is '<singular of the entity>id eq <v>',
\* with the id the user gave, unquoted, for every entity of the synonym table,
\* both for the id a get is given and for the phrase 'id = <v>' of a list or count.
C27_IdClause ==
    \A entity \in ClauseEntities, reply \in IdReplies :
        /\ applied = Call("buildODataFilter", [ entity |-> entity, action |-> reply.action,
                                                input |-> reply.input ])
        /\ returned # << >>
        => returned[1] = Some(SingularName(entity) \o <<"i", "d", " ", "e", "q", " ">> \o reply.id)

\* C28: what listEntities returns without error is the summary of every entity
\* of a full refresh of the list; entities loaded one by one by getEntityDetails
\* do not stand for the list, so the names returned are the names of all the
\* entities the CRM holds.
C28_ListIsOfFullRefresh ==
    (metaLast.op = "listEntities" /\ metaLast.status = "ok")
        => { e.name : e \in metaLast.entities } = RemoteNames

\* A getEntityDetails whose loadEntityDetails resolved returns at this step
DetailsReturnAfterLoad(i) ==
    /\ i \in DOMAIN metaCalls
    /\ metaCalls[i].op = "getEntityDetails"
    /\ metaCalls[i].stage = "loaded"
    /\ metaCalls' = RemoveAt(metaCalls, i)
    /\ metaLast'.op = "getEntityDetails"

\* C29: with a list refresh in flight at the same time, a
\* getEntityDetails(name, {includeAttributes: true}) whose load resolved returns
\* the record with the attributes the connector supplied: never the bare entry
\* of the list refresh, never a not-found error.
C29_DetailsCarryAttributes ==
    [][\A i \in 1..MaxInFlight :
          DetailsReturnAfterLoad(i)
              => /\ metaLast'.status = "ok"
                 /\ Len(Get(metaLast'.entity).attributes) > 0]_vars

\* C30: a message posted to /mcp/messages is handled only by the transport
\* registered under the sessionId of the request, or under a spelling
\* registerSessionIdFormats gives that id; a sessionId that is the id or a
\* spelling of no active transport is answered 404 and handled by no transport.
C30_OwnTransportOnly ==
    (posted.op = "post" /\ posted.status # 400)
        => /\ \A i \in DOMAIN posted.handledBy :
                 posted.sessionId \in SessionIdFormats(posted.handledBy[i])
           /\ (\A id \in TransportKeys : posted.sessionId \notin SessionIdFormats(id))
                 => posted.status = 404 /\ posted.handledBy = << >>

====
